---- MODULE Spec2Model ----
(***************************************************************************)
(* Model of the test-quality analysis pipeline of the test authoring tool: *)
(* TestCaseOptimizer (backend/app/optimizers/test_optimizer.py), its three *)
(* analyzers, and the part of TestGenerationService.generate_tests_for_    *)
(* issue (backend/app/github_webhook.py) that runs around it.              *)
(*                                                                         *)
(* A Python source text is modelled by its definition statements in source *)
(* order: each def / async def / class statement is one node, its line     *)
(* number is its position, and `parent` is the enclosing definition (0 for *)
(* module level).  A node carries the assert statements and the import     *)
(* statements written directly in its body.  Scores are kept in quarter    *)
(* points (10.0 is 40): every deduction of the code is a multiple of 0.25, *)
(* which binary floating point represents exactly.                         *)
(***************************************************************************)
EXTENDS Integers, Sequences, FiniteSets, TLC

VARIABLES
    pc,               \* position of the run
    config,           \* what the constructors read from the environment
    generated_tests,  \* argument of optimize: the generated test source
    existing_tests,   \* argument of optimize: contents of existing test files
    codebase_context, \* argument of optimize: the code context
    test_cases,       \* optimize's local: the extracted TestCase list
    report,           \* optimize's local, then its return value
    invoked,          \* analyzers whose entry point was called in this run
    finished,         \* analyzers that returned to optimize or raised into it
    failed,           \* analyzers whose exception optimize caught
    coverage,         \* state of Step 8, the coverage (gap) analysis
    args,             \* arguments of a method that is run on its own
    result,           \* what that method returned
    state_file,       \* StateManager: what the state file holds
    _lock,            \* StateManager._lock: 0 when free, else the holding thread
    _state,           \* StateManager._state
    threads           \* the threads that call the StateManager

vars == <<pc, config, generated_tests, existing_tests, codebase_context,
          test_cases, report, invoked, finished, failed, coverage, args, result,
          state_file, _lock, _state, threads>>

----------------------------------------------------------------------------
(* Bounds of the model. *)

\* Definitions per generated source in a run of the workflow.
MaxDefs == 2

\* Definitions per source handed to the extractor on its own.
MaxExtractorDefs == 3

----------------------------------------------------------------------------
(* Sequence helpers. *)

RECURSIVE SeqSum(_)
SeqSum(s) == IF s = <<>> THEN 0 ELSE Head(s) + SeqSum(Tail(s))

RECURSIVE Flatten(_)
Flatten(ss) == IF ss = <<>> THEN <<>> ELSE Head(ss) \o Flatten(Tail(ss))

\* The members of the integer set S as an ascending sequence.
RECURSIVE Ascending(_)
Ascending(S) ==
    IF S = {} THEN <<>>
    ELSE LET m == CHOOSE x \in S : \A y \in S : x <= y
         IN  <<m>> \o Ascending(S \ {m})

----------------------------------------------------------------------------
(* Python sources and the ast module. *)

\* node.name.startswith('test_')
StartsWithTestPrefix(name) ==
    name \in {"test_a", "test_b", "test_c", "test_d", "test_e"}

MalformedSource == [valid |-> FALSE, defs |-> <<>>]

\* The definition statements directly inside node p (p = 0: the module).
Children(defs, p) == Ascending({i \in DOMAIN defs : defs[i].parent = p})

\* ast.walk: breadth first, a deque fed with each node's children.
RECURSIVE WalkFrom(_, _)
WalkFrom(defs, queue) ==
    IF queue = <<>> THEN <<>>
    ELSE <<Head(queue)>> \o WalkFrom(defs, Tail(queue) \o Children(defs, Head(queue)))

\* The definition nodes in the order ast.walk(ast.parse(text)) yields them.
Walk(defs) == WalkFrom(defs, Children(defs, 0))

\* Last node of the subtree of node i (nodes are in source order, so the
\* subtree of i is the run of nodes i..LastOf(defs, i)): node.end_lineno.
RECURSIVE LastOf(_, _)
LastOf(defs, i) ==
    LET kids == Children(defs, i)
    IN  IF kids = <<>> THEN i ELSE LastOf(defs, kids[Len(kids)])

\* test_code.split('\n')[node.lineno-1:node.end_lineno] joined again: the
\* lines of node i with their indentation, as a source of their own.
FuncCode(defs, i) ==
    [indented |-> defs[i].parent # 0,
     defs     |-> [j \in 1..(LastOf(defs, i) - i + 1) |->
                     [defs[i + j - 1] EXCEPT
                        !.parent = IF j = 1 THEN 0 ELSE defs[i + j - 1].parent - i + 1]]]

TestCaseOf(defs, i) ==
    [name       |-> defs[i].name,
     code       |-> FuncCode(defs, i),
     line_start |-> i,
     line_end   |-> LastOf(defs, i)]

RECURSIVE CollectTests(_, _)
CollectTests(defs, order) ==
    IF order = <<>> THEN <<>>
    ELSE LET i == Head(order)
         IN  (IF defs[i].kind = "FunctionDef" /\ StartsWithTestPrefix(defs[i].name)
              THEN <<TestCaseOf(defs, i)>> ELSE <<>>)
             \o CollectTests(defs, Tail(order))

\* Fault variant of ParseTests: the SyntaxError of ast.parse is not caught.
ParseTestsPropagates(src) ==
    IF ~src.valid
    THEN [raised |-> TRUE, value |-> <<>>]
    ELSE [raised |-> FALSE, value |-> CollectTests(src.defs, Walk(src.defs))]

\* TestCaseOptimizer._parse_tests: ast.parse raises SyntaxError on a
\* malformed source, which is caught; the result is the list built so far.
ParseTests(src) ==
    IF ~src.valid
    THEN [raised |-> FALSE, value |-> <<>>]
    ELSE [raised |-> FALSE, value |-> CollectTests(src.defs, Walk(src.defs))]

----------------------------------------------------------------------------
(* Python strings, where the code looks inside them, are sequences of      *)
(* one-character strings.                                                  *)

\* a in b
IsSubstr(a, b) ==
    \E k \in 0..(Len(b) - Len(a)) : SubSeq(b, k + 1, k + Len(a)) = a

\* s.replace('/', '.')
ReplaceSlash(s) == [i \in DOMAIN s |-> IF s[i] = "/" THEN "." ELSE s[i]]

\* s.replace('.py', '')
RECURSIVE RemoveDotPy(_)
RemoveDotPy(s) ==
    IF Len(s) < 3 THEN s
    ELSE IF SubSeq(s, 1, 3) = <<".", "p", "y">>
         THEN RemoveDotPy(SubSeq(s, 4, Len(s)))
         ELSE <<Head(s)>> \o RemoveDotPy(Tail(s))

\* s.split('.')[0]
RECURSIVE FirstPart(_)
FirstPart(s) ==
    IF s = <<>> \/ Head(s) = "." THEN <<>>
    ELSE <<Head(s)>> \o FirstPart(Tail(s))

----------------------------------------------------------------------------
(* SimilarityAnalyzer. *)

\* SIMILARITY_THRESHOLD, in hundredths.
SimilarityThreshold == 70

\* np.dot; operands of different lengths make it raise ValueError.
Dot(v, w) == SeqSum([i \in DOMAIN v |-> v[i] * w[i]])

RECURSIVE GCD(_, _)
GCD(a, b) == IF b = 0 THEN a ELSE GCD(b, a % b)

\* _cosine_similarity(v, w) >= num / den, for den > 0.  The cosine is
\* dot / (norm1 * norm2); it is 0.0 when a norm is 0 and when numpy raises,
\* which the method catches.  The squares are compared in lowest terms.
CosineAtLeast(v, w, num, den) ==
    IF Len(v) # Len(w) THEN num <= 0
    ELSE
    LET d  == Dot(v, w)
        n  == Dot(v, v) * Dot(w, w)
        g  == GCD(d * d, n)
        dd == (d * d) \div g
        nn == n \div g
        h  == GCD(IF num >= 0 THEN num ELSE 0 - num, den)
        nu == num \div h
        de == den \div h
    IN  IF n = 0 THEN num <= 0
        ELSE IF d >= 0
             THEN num <= 0 \/ dd * de * de >= nu * nu * nn
             ELSE num < 0 /\ dd * de * de <= nu * nu * nn

\* The largest k in lo..hi with (2k - 1)^2 <= f, by bisection (lo qualifies).
RECURSIVE NearestThousandth(_, _, _)
NearestThousandth(f, lo, hi) ==
    IF lo = hi THEN lo
    ELSE LET mid == (lo + hi + 1) \div 2
         IN  IF (2 * mid - 1) * (2 * mid - 1) <= f
             THEN NearestThousandth(f, mid, hi)
             ELSE NearestThousandth(f, lo, mid - 1)

\* round(similarity, 3), in thousandths: the k nearest to 1000 d / sqrt(n),
\* that is the largest k with (2k - 1)^2 <= 4000000 d^2 / n.
RoundedSimilarity(v, w) ==
    IF Len(v) # Len(w) THEN 0
    ELSE
    LET d  == Dot(v, w)
        n  == Dot(v, v) * Dot(w, w)
        g  == GCD(d * d, n)
        dd == (d * d) \div g
        nn == n \div g
        \* floor(4000000 dd / nn), in two steps of 2000
        q  == (dd * 2000) \div nn
        r  == (dd * 2000) % nn
        f  == q * 2000 + (r * 2000) \div nn
        a  == IF n = 0 THEN 0 ELSE NearestThousandth(f, 0, 1000)
    IN  IF d >= 0 THEN a ELSE 0 - a

\* Fault variant of CreateSimilarPair: `elif similarity > 0.8`, in steps of
\* a hundredth.
CreateSimilarPairStrict(test1, test2, v, w) ==
    [test1      |-> test1.name,
     test2      |-> test2.name,
     similarity |-> RoundedSimilarity(v, w),
     suggestion |-> IF CosineAtLeast(v, w, 9, 10)
                    THEN "Tests are nearly identical - consider removing duplicate"
                    ELSE IF CosineAtLeast(v, w, 81, 100)
                    THEN "Combine using parametrization with @pytest.mark.parametrize"
                    ELSE "Consider consolidating or making tests more distinct"]

\* _create_similar_pair: the suggestion goes by the similarity as computed,
\* the recorded similarity is rounded to three places.
CreateSimilarPair(test1, test2, v, w) ==
    [test1      |-> test1.name,
     test2      |-> test2.name,
     similarity |-> RoundedSimilarity(v, w),
     suggestion |-> IF CosineAtLeast(v, w, 9, 10)
                    THEN "Tests are nearly identical - consider removing duplicate"
                    ELSE IF CosineAtLeast(v, w, 8, 10)
                    THEN "Combine using parametrization with @pytest.mark.parametrize"
                    ELSE "Consider consolidating or making tests more distinct"]

\* _get_embeddings: an exception of the embeddings call is caught and
\* yields an empty list.
GetEmbeddings(response) == IF response.raises THEN <<>> ELSE response.data

\* Fault variant of PairsFrom: a pair at the threshold itself is left out.
RECURSIVE PairsFromStrict(_, _, _, _)
PairsFromStrict(tcs, emb, i, j) ==
    IF i > Len(tcs) THEN <<>>
    ELSE IF j > Len(tcs) THEN PairsFromStrict(tcs, emb, i + 1, i + 2)
    ELSE (IF CosineAtLeast(emb[i], emb[j], SimilarityThreshold + 1, 100)
          THEN <<CreateSimilarPair(tcs[i], tcs[j], emb[i], emb[j])>>
          ELSE <<>>)
         \o PairsFromStrict(tcs, emb, i, j + 1)

\* The loop of analyze over i < j, row by row.
RECURSIVE PairsFrom(_, _, _, _)
PairsFrom(tcs, emb, i, j) ==
    IF i > Len(tcs) THEN <<>>
    ELSE IF j > Len(tcs) THEN PairsFrom(tcs, emb, i + 1, i + 2)
    ELSE (IF CosineAtLeast(emb[i], emb[j], SimilarityThreshold, 100)
          THEN <<CreateSimilarPair(tcs[i], tcs[j], emb[i], emb[j])>>
          ELSE <<>>)
         \o PairsFrom(tcs, emb, i, j + 1)

\* Fault variant of SimilarityCallsService: the client is not looked at.
SimilarityCallsServiceWithoutClient(client, tcs) == Len(tcs) >= 2

\* analyze reaches the embeddings call.
SimilarityCallsService(client, tcs) == client /\ Len(tcs) >= 2

\* Fault variant of SimilarityAnalyze: with fewer vectors than tests the
\* pairs among the tests that have a vector are returned.
SimilarityAnalyzeKeepsPairs(client, tcs, response) ==
    IF ~SimilarityCallsService(client, tcs) THEN <<>>
    ELSE LET emb == GetEmbeddings(response)
         IN  IF emb = <<>> THEN <<>>
             ELSE IF Len(emb) < Len(tcs)
                  THEN PairsFrom(SubSeq(tcs, 1, Len(emb)), emb, 1, 2)
             ELSE PairsFrom(tcs, emb, 1, 2)

\* SimilarityAnalyzer.analyze, given what the embeddings call does.  An
\* index past the end of the embeddings raises IndexError, caught by
\* analyze, which then returns an empty list.
SimilarityAnalyze(client, tcs, response) ==
    IF ~SimilarityCallsService(client, tcs) THEN <<>>
    ELSE LET emb == GetEmbeddings(response)
         IN  IF emb = <<>> THEN <<>>
             ELSE IF Len(emb) < Len(tcs) THEN <<>>
             ELSE PairsFrom(tcs, emb, 1, 2)

----------------------------------------------------------------------------
(* AISuggestions. *)

\* _fallback_parse: keyword search in the response text.
FallbackParse(text) ==
    (IF "parametrize" \in text.mentions \/ "parameter" \in text.mentions
     THEN <<[type       |-> "parameterization",
             tests      |-> <<>>,
             reason     |-> "Tests have similar logic with different inputs",
             suggestion |-> "Consider using @pytest.mark.parametrize"]>>
     ELSE <<>>)
    \o
    (IF "fixture" \in text.mentions
     THEN <<[type       |-> "fixture",
             tests      |-> <<>>,
             reason     |-> "Common setup code detected",
             suggestion |-> "Extract repeated setup to a fixture"]>>
     ELSE <<>>)

\* The loop over data['suggestions']: an item the model class rejects
\* raises, and the generic handler keeps what was appended before it.
RECURSIVE JsonItems(_)
JsonItems(items) ==
    IF items = <<>> \/ ~Head(items).well_typed THEN <<>>
    ELSE <<[type       |-> Head(items).type,
            tests      |-> Head(items).tests,
            reason     |-> "reason",
            suggestion |-> "suggestion"]>> \o JsonItems(Tail(items))

\* _parse_suggestions.  shape "json": a JSON object lies between the first
\* '{' and the last '}'; "bad_json": braces are there but json.loads raises
\* JSONDecodeError; "no_braces": no '{' ... '}' in the text.
ParseSuggestions(text) ==
    CASE text.shape = "json"      -> JsonItems(text.items)
      [] text.shape = "bad_json"  -> FallbackParse(text)
      [] text.shape = "no_braces" -> <<>>

\* suggest reaches the chat completion call.
SuggestCallsService(client, tcs) == client /\ tcs # <<>>

\* AISuggestions.suggest, given what the chat completion call does.
Suggest(client, tcs, response) ==
    IF ~SuggestCallsService(client, tcs) THEN <<>>
    ELSE IF response.raises THEN <<>>
    ELSE ParseSuggestions(response.text)

----------------------------------------------------------------------------
(* RedundancyDetector. *)

\* ast.walk(node) for definition node i: i and the definitions below it.
WalkNode(defs, i) == WalkFrom(defs, <<i>>)

\* _extract_assertions(func_node): ast.unparse of the test of every assert
\* statement ast.walk finds below func_node, nested definitions included.
ExtractAssertions(defs, i) ==
    LET order == WalkNode(defs, i)
    IN  Flatten([k \in DOMAIN order |-> defs[order[k]].asserts])

\* _assertions_overlap: every assertion of the FIRST list that has an equal
\* or substring-related partner in the second counts as a match; the count
\* is divided by the length of the shorter list.
AssertionsOverlap(assertions1, assertions2) ==
    IF assertions1 = <<>> \/ assertions2 = <<>> THEN FALSE
    ELSE LET matches == Cardinality(
                 {i \in DOMAIN assertions1 :
                    \E j \in DOMAIN assertions2 :
                       \/ assertions1[i] = assertions2[j]
                       \/ IsSubstr(assertions1[i], assertions2[j])
                       \/ IsSubstr(assertions2[j], assertions1[i])})
             smaller == IF Len(assertions1) <= Len(assertions2)
                        THEN Len(assertions1) ELSE Len(assertions2)
         IN  \* matches / smaller > 0.5
             2 * matches > smaller

\* existing_test_assertions[name] = assertions on a dict that keeps the
\* order of first insertion.
DictSet(d, name, value) ==
    IF \E k \in DOMAIN d : d[k].name = name
    THEN [k \in DOMAIN d |-> IF d[k].name = name
                             THEN [name |-> name, assertions |-> value]
                             ELSE d[k]]
    ELSE Append(d, [name |-> name, assertions |-> value])

RECURSIVE ExistingOfFile(_, _, _)
ExistingOfFile(defs, order, d) ==
    IF order = <<>> THEN d
    ELSE LET i == Head(order)
         IN  ExistingOfFile(defs, Tail(order),
                 IF defs[i].kind = "FunctionDef" /\ StartsWithTestPrefix(defs[i].name)
                 THEN DictSet(d, defs[i].name, ExtractAssertions(defs, i))
                 ELSE d)

\* The first loop of _find_redundant: the test functions of every existing
\* file that parses, with their assertions; a file that does not parse is
\* skipped.  existing_test_names is the key set of the result.
RECURSIVE ExistingTestAssertions(_, _)
ExistingTestAssertions(files, d) ==
    IF files = <<>> THEN d
    ELSE ExistingTestAssertions(Tail(files),
             IF Head(files).valid
             THEN ExistingOfFile(Head(files).defs, Walk(Head(files).defs), d)
             ELSE d)

SameNameFinding(name) ==
    [test          |-> name,
     reason        |-> "Test with same name already exists",
     existing_test |-> <<"existing test: ", name>>,
     suggestion    |-> "Remove or rename this test"]

SimilarAssertionsFinding(name, existing_name) ==
    [test          |-> name,
     reason        |-> "Similar assertions to existing test",
     existing_test |-> <<existing_name>>,
     suggestion    |-> "Consider consolidating or making more specific"]

\* The inner loop over existing_test_assertions.items(): the first
\* existing test that overlaps yields one finding, then break.
FirstOverlap(name, new_assertions, d) ==
    LET hits == {k \in DOMAIN d : AssertionsOverlap(new_assertions, d[k].assertions)}
    IN  IF hits = {} THEN <<>>
        ELSE <<SimilarAssertionsFinding(name, d[CHOOSE k \in hits : \A h \in hits : k <= h].name)>>

\* The loop over ast.walk(ast.parse(test.code)): every FunctionDef of the
\* test's own code is compared, the test function and each function
\* defined inside it.
RECURSIVE OverlapFindings(_, _, _, _)
OverlapFindings(name, defs, order, d) ==
    IF order = <<>> THEN <<>>
    ELSE (IF defs[Head(order)].kind = "FunctionDef"
          THEN FirstOverlap(name, ExtractAssertions(defs, Head(order)), d)
          ELSE <<>>)
         \o OverlapFindings(name, defs, Tail(order), d)

\* Fault variant of RedundantOfTest: no `continue` after the same-name
\* finding, the assertions are compared as well.
RedundantOfTestNoContinue(test, d) ==
    (IF \E k \in DOMAIN d : d[k].name = test.name
     THEN <<SameNameFinding(test.name)>> ELSE <<>>)
    \o (IF test.code.indented THEN <<>>
        ELSE OverlapFindings(test.name, test.code.defs, Walk(test.code.defs), d))

\* The findings of _find_redundant for one new test.  ast.parse of an
\* indented fragment raises IndentationError: the bare except skips the test.
RedundantOfTest(test, d) ==
    IF \E k \in DOMAIN d : d[k].name = test.name
    THEN <<SameNameFinding(test.name)>>
    ELSE IF test.code.indented THEN <<>>
    ELSE OverlapFindings(test.name, test.code.defs, Walk(test.code.defs), d)

\* RedundancyDetector._find_redundant
FindRedundant(tcs, files) ==
    LET d == ExistingTestAssertions(files, <<>>)
    IN  Flatten([k \in DOMAIN tcs |-> RedundantOfTest(tcs[k], d)])

\* _get_existing_modules: the paths of relevant_code as dotted module paths.
GetExistingModules(context) ==
    {RemoveDotPy(ReplaceSlash(context.relevant_code[k].path)) :
        k \in {i \in DOMAIN context.relevant_code : context.relevant_code[i].path # <<>>}}

StdlibModules ==
    { <<"o","s">>, <<"s","y","s">>, <<"a","s","t">>, <<"j","s","o","n">>,
      <<"t","y","p","i","n","g">>, <<"l","o","g","g","i","n","g">>,
      <<"p","y","t","e","s","t">>, <<"u","n","i","t","t","e","s","t">>,
      <<"r","e">>, <<"m","a","t","h">>, <<"d","a","t","e","t","i","m","e">>,
      <<"c","o","l","l","e","c","t","i","o","n","s">>,
      <<"i","t","e","r","t","o","o","l","s">>,
      <<"f","u","n","c","t","o","o","l","s">> }

\* _module_exists
ModuleExists(module_name, existing_modules) ==
    \/ FirstPart(module_name) \in StdlibModules
    \/ \E existing \in existing_modules :
          IsSubstr(module_name, existing) \/ IsSubstr(existing, module_name)

OutdatedFinding(name, stmt, module) ==
    [test     |-> name,
     issue    |-> <<IF stmt = "Import" THEN "Imports non-existent module: "
                    ELSE "Imports from non-existent module: ", module>>,
     fix      |-> <<IF stmt = "Import" THEN "Update or remove import of "
                    ELSE "Update or remove import from ", module>>,
     severity |-> "high"]

\* One import statement: `import m` checks m; `from m import x` checks m
\* when the statement names a module (module <<>> stands for None).
RECURSIVE OutdatedOfImports(_, _, _)
OutdatedOfImports(name, imports, existing_modules) ==
    IF imports = <<>> THEN <<>>
    ELSE LET imp == Head(imports)
         IN  (IF /\ imp.stmt = "ImportFrom" => imp.module # <<>>
                 /\ ~ModuleExists(imp.module, existing_modules)
              THEN <<OutdatedFinding(name, imp.stmt, imp.module)>>
              ELSE <<>>)
             \o OutdatedOfImports(name, Tail(imports), existing_modules)

\* The findings of _find_outdated for one new test: the import statements
\* ast.walk finds in the parsed test code; an indented fragment does not
\* parse and is skipped.
OutdatedOfTest(test, existing_modules) ==
    IF test.code.indented THEN <<>>
    ELSE LET defs  == test.code.defs
             order == Walk(defs)
         IN  OutdatedOfImports(test.name,
                 Flatten([k \in DOMAIN order |-> defs[order[k]].imports]),
                 existing_modules)

\* Fault variant of FindOutdated: the SyntaxError of a test case that does
\* not parse ends the loop, the findings collected so far are returned.
FindOutdatedStopsAtSyntaxError(tcs, context) ==
    LET existing_modules == GetExistingModules(context)
        unparsable == {k \in DOMAIN tcs : tcs[k].code.indented}
        last == IF unparsable = {} THEN Len(tcs)
                ELSE (CHOOSE k \in unparsable : \A h \in unparsable : k <= h) - 1
    IN  Flatten([k \in 1..last |-> OutdatedOfTest(tcs[k], existing_modules)])

\* RedundancyDetector._find_outdated
FindOutdated(tcs, context) ==
    LET existing_modules == GetExistingModules(context)
    IN  Flatten([k \in DOMAIN tcs |-> OutdatedOfTest(tcs[k], existing_modules)])

\* RedundancyDetector.detect
Detect(cfg, tcs, files, context) ==
    [redundant |-> IF cfg.check_redundant /\ files # <<>>
                   THEN FindRedundant(tcs, files) ELSE <<>>,
     outdated  |-> IF cfg.check_outdated
                   THEN FindOutdated(tcs, context) ELSE <<>>]

----------------------------------------------------------------------------
(* OptimizationReport and the quality score. *)

\* OptimizationReport(): empty finding lists, quality_score 10.0.
EmptyReport ==
    [similar_pairs   |-> <<>>,
     optimizations   |-> <<>>,
     redundant_tests |-> <<>>,
     outdated_tests  |-> <<>>,
     quality_score   |-> 40]

Max(a, b) == IF a >= b THEN a ELSE b
Min(a, b) == IF a <= b THEN a ELSE b

\* Fault variant of CalculateQualityScore: the lower clamp is missing.
CalculateQualityScoreUnclamped(r) ==
    Min(40, 40 - Len(r.similar_pairs) * 2
               - Len(r.redundant_tests) * 3
               - Len(r.outdated_tests) * 4
               - Len(r.optimizations) * 1)

\* Fault variant of CalculateQualityScore: suggestions add to the score.
CalculateQualityScoreAdds(r) ==
    Max(0, Min(40, 40 - Len(r.similar_pairs) * 2
                      - Len(r.redundant_tests) * 3
                      - Len(r.outdated_tests) * 4
                      + Len(r.optimizations) * 1))

\* TestCaseOptimizer._calculate_quality_score, in quarter points.
CalculateQualityScore(r) ==
    LET score == 40 - Len(r.similar_pairs) * 2
                    - Len(r.redundant_tests) * 3
                    - Len(r.outdated_tests) * 4
                    - Len(r.optimizations) * 1
    IN  Max(0, Min(40, score))

\* report.similar_pairs = ...
SetSimilarPairs(r, pairs) == [r EXCEPT !.similar_pairs = pairs]

\* report.optimizations = ...
SetOptimizations(r, suggestions) == [r EXCEPT !.optimizations = suggestions]

\* Fault variant of SetRedundancy: the findings go into a fresh report.
SetRedundancyFresh(r, found) ==
    [EmptyReport EXCEPT !.redundant_tests = found.redundant,
                        !.outdated_tests = found.outdated]

\* report.redundant_tests = redundant; report.outdated_tests = outdated
SetRedundancy(r, found) ==
    [r EXCEPT !.redundant_tests = found.redundant, !.outdated_tests = found.outdated]

----------------------------------------------------------------------------
(* The inputs the model draws from. *)

AssertX  == <<"x">>
AssertXY == <<"x", "y">>
ModuleM  == <<"m">>
PathAM   == <<"a", "/", "m", ".", "p", "y">>

FunctionNode(name, asserts, imports) ==
    [kind |-> "FunctionDef", name |-> name, parent |-> 0,
     asserts |-> asserts, imports |-> imports]

NodeTestA  == FunctionNode("test_a", <<AssertX>>, <<>>)
NodeTestB  == FunctionNode("test_b", <<AssertXY>>, <<[stmt |-> "Import", module |-> ModuleM]>>)
NodeHelper == FunctionNode("helper", <<AssertX>>, <<>>)
NodeClass  == [kind |-> "ClassDef", name |-> "TestX", parent |-> 0,
               asserts |-> <<>>, imports |-> <<>>]
NodeAsync  == [kind |-> "AsyncFunctionDef", name |-> "test_a", parent |-> 0,
               asserts |-> <<>>, imports |-> <<>>]

\* Node a is j or lies above j in the nesting given by the parents p.
RECURSIVE OnPath(_, _, _)
OnPath(p, a, j) == a = 0 \/ a = j \/ (j # 0 /\ OnPath(p, a, p[j]))

\* Parents that some source text has: a definition is nested in the
\* definition before it, or in one of those enclosing that, or in none.
Nestings(k) ==
    {p \in [1..k -> 0..k] :
        \A i \in 1..k : p[i] < i /\ (i > 1 => OnPath(p, p[i], i - 1))}

\* The valid sources of at most n definitions taken from `nodes`, and the
\* malformed source.
Sources(nodes, n) ==
    {MalformedSource} \cup
    UNION {
        {[valid |-> TRUE, defs |-> [i \in 1..k |-> [t[i] EXCEPT !.parent = p[i]]]] :
            t \in [1..k -> nodes], p \in Nestings(k)} : k \in 0..n}

PipelineSources == Sources({NodeTestA, NodeTestB, NodeClass}, MaxDefs)

ExtractorSources ==
    Sources({NodeTestA, NodeTestB, NodeHelper, NodeClass, NodeAsync}, MaxExtractorDefs)

ExistingFile == [valid |-> TRUE, defs |-> <<NodeTestA>>]

ExistingTestsChoices == {<<>>, <<MalformedSource, ExistingFile>>}

ContextChoices ==
    {[relevant_code |-> <<>>], [relevant_code |-> <<[path |-> PathAM]>>]}

\* TestCaseOptimizer.__init__ and the constructors of the analyzers: the
\* analyzers exist only when the optimizer is enabled; a client is there
\* when its capability is switched on and an API key is set.
ConfigChoices ==
    LET on == [enabled |-> TRUE, similarity_client |-> TRUE, ai_client |-> TRUE,
               check_redundant |-> TRUE, check_outdated |-> TRUE]
    IN  {on,
         [on EXCEPT !.similarity_client = FALSE],
         [on EXCEPT !.ai_client = FALSE],
         [on EXCEPT !.check_redundant = FALSE],
         [on EXCEPT !.check_outdated = FALSE],
         [enabled |-> FALSE, similarity_client |-> FALSE, ai_client |-> FALSE,
          check_redundant |-> FALSE, check_outdated |-> FALSE]}

Vectors == {<<1, 0>>, <<0, 1>>}

\* What the embeddings call can do for n texts: raise, or return a list
\* of vectors, which may be shorter than the list of texts.
ResponsesOver(vectors, n) ==
    {[raises |-> TRUE, data |-> <<>>]} \cup
    {[raises |-> FALSE, data |-> d] :
        d \in [1..n -> vectors] \cup [1..(n - 1) -> vectors]}

EmbeddingResponses(n) == ResponsesOver(Vectors, n)

MaxSuggestions == 2

SuggestionItems ==
    {[type |-> "fixture", tests |-> <<>>, well_typed |-> TRUE],
     [type |-> "fixture", tests |-> <<>>, well_typed |-> FALSE]}

\* What the chat completion call can do: raise, or return a text.
AdvisoryResponses ==
    {[raises |-> TRUE, text |-> [shape |-> "no_braces", items |-> <<>>, mentions |-> {}]]}
    \cup
    {[raises |-> FALSE, text |-> [shape |-> "json", items |-> it, mentions |-> {}]] :
        it \in UNION {[1..k -> SuggestionItems] : k \in 0..MaxSuggestions}}
    \cup
    {[raises |-> FALSE, text |-> [shape |-> sh, items |-> <<>>, mentions |-> m]] :
        sh \in {"bad_json", "no_braces"}, m \in SUBSET {"parameter", "fixture"}}

----------------------------------------------------------------------------
(* TestGenerationService.generate_tests_for_issue from Step 5 on, with     *)
(* TestCaseOptimizer.optimize step by step.                                *)
(*                                                                         *)
(* pc: "idle" (Step 5, optimize about to be called), "similarity",         *)
(* "await_embedding", "advisory", "await_advisory", "redundancy",          *)
(* "scoring" (inside optimize), "returned" (optimize returned `report`),   *)
(* "optimize_raised" (an exception left optimize), "coverage" (Step 8),    *)
(* "finished" and "failed" (the workflow's two results).                   *)

inputs == <<config, generated_tests, existing_tests, codebase_context>>

\* The call frame of a method run on its own; unused by the workflow.
frame == <<args, result>>
NoFrame == [method |-> "none"]

\* The StateManager, which the workflow and the methods above do not touch:
\* __init__ leaves the lock free and _state None.
manager == <<state_file, _lock, _state, threads>>

\* ToolState(): the usage counters of a new state.
DefaultState == [tests_generated |-> 0, coverage_analyses |-> 0, optimizations_run |-> 0]

\* None, where a ToolState can stand.
NoneState == [none |-> TRUE]

\* A state file that holds state.model_dump().
FileOf(state) == [exists |-> TRUE, valid |-> TRUE, data |-> state]

\* No state file, and one whose text json.load or ToolState(**data) rejects.
MissingFile == [exists |-> FALSE, valid |-> FALSE, data |-> NoneState]
CorruptFile == [exists |-> TRUE, valid |-> FALSE, data |-> NoneState]

ManagerUnused ==
    /\ state_file = MissingFile
    /\ _lock = 0
    /\ _state = NoneState
    /\ threads = <<>>

Init ==
    /\ pc = "idle"
    /\ config \in ConfigChoices
    /\ generated_tests \in PipelineSources
    /\ existing_tests \in ExistingTestsChoices
    /\ codebase_context \in ContextChoices
    /\ test_cases = <<>>
    /\ report = EmptyReport
    /\ invoked = {}
    /\ finished = {}
    /\ failed = {}
    /\ coverage = "not_run"
    /\ args = NoFrame
    /\ result = NoFrame
    /\ ManagerUnused

\* optimize, lines 54-56: the optimizer is disabled.
OptimizeDisabled ==
    /\ pc = "idle"
    /\ ~config.enabled
    /\ report' = EmptyReport
    /\ pc' = "returned"
    /\ UNCHANGED <<frame, manager, inputs, test_cases, invoked, finished, failed, coverage>>

\* Fault variant of Extract: no early return for an empty test case list.
ExtractNoEarlyReturn ==
    /\ pc = "idle"
    /\ config.enabled
    /\ LET parsed == ParseTests(generated_tests)
       IN  /\ test_cases' = IF parsed.raised THEN <<>> ELSE parsed.value
           /\ report' = EmptyReport
           /\ pc' = IF parsed.raised THEN "returned" ELSE "similarity"
    /\ UNCHANGED <<frame, manager, inputs, invoked, finished, failed, coverage>>

\* optimize, lines 58-70: parse, return early when there is no test case.
\* An exception of _parse_tests would reach the outer handler (109-111).
Extract ==
    /\ pc = "idle"
    /\ config.enabled
    /\ LET parsed == ParseTests(generated_tests)
       IN  /\ test_cases' = IF parsed.raised THEN <<>> ELSE parsed.value
           /\ report' = EmptyReport
           /\ pc' = IF parsed.raised \/ parsed.value = <<>>
                    THEN "returned" ELSE "similarity"
    /\ UNCHANGED <<frame, manager, inputs, invoked, finished, failed, coverage>>

\* Fault variant of SimilarityStart: the embeddings call is issued and
\* optimize goes on without waiting for analyze to finish.
SimilarityStartNoWait ==
    /\ pc = "similarity"
    /\ invoked' = invoked \cup
         (IF SimilarityCallsService(config.similarity_client, test_cases)
          THEN {"similarity", "embeddings_call"} ELSE {"similarity"})
    /\ pc' = "advisory"
    /\ UNCHANGED <<frame, manager, inputs, test_cases, report, finished, failed, coverage>>

\* Line 74 up to the embeddings call; without a client or with fewer than
\* two tests analyze returns at once.
SimilarityStart ==
    /\ pc = "similarity"
    /\ invoked' = invoked \cup
         (IF SimilarityCallsService(config.similarity_client, test_cases)
          THEN {"similarity", "embeddings_call"} ELSE {"similarity"})
    /\ IF SimilarityCallsService(config.similarity_client, test_cases)
       THEN /\ pc' = "await_embedding"
            /\ UNCHANGED <<report, finished>>
       ELSE /\ pc' = "advisory"
            /\ report' = SetSimilarPairs(report,
                   SimilarityAnalyze(config.similarity_client, test_cases,
                                     [raises |-> FALSE, data |-> <<>>]))
            /\ finished' = finished \cup {"similarity"}
    /\ UNCHANGED <<frame, manager, inputs, test_cases, failed, coverage>>

\* The embeddings call comes back (a result or an exception); analyze
\* finishes and line 74 assigns its result.
EmbeddingReturns ==
    /\ pc = "await_embedding"
    /\ \E response \in EmbeddingResponses(Len(test_cases)) :
          report' = SetSimilarPairs(report,
              SimilarityAnalyze(config.similarity_client, test_cases, response))
    /\ finished' = finished \cup {"similarity"}
    /\ pc' = "advisory"
    /\ UNCHANGED <<frame, manager, inputs, test_cases, invoked, failed, coverage>>

\* Lines 76-77: analyze raised; the report keeps its empty similar_pairs.
SimilarityRaises ==
    /\ pc = "similarity"
    /\ invoked' = invoked \cup {"similarity"}
    /\ finished' = finished \cup {"similarity"}
    /\ failed' = failed \cup {"similarity"}
    /\ pc' = "advisory"
    /\ UNCHANGED <<frame, manager, inputs, test_cases, report, coverage>>

\* Line 80 up to the chat completion call.
SuggestStart ==
    /\ pc = "advisory"
    /\ invoked' = invoked \cup
         (IF SuggestCallsService(config.ai_client, test_cases)
          THEN {"advisory", "chat_call"} ELSE {"advisory"})
    /\ IF SuggestCallsService(config.ai_client, test_cases)
       THEN /\ pc' = "await_advisory"
            /\ UNCHANGED <<report, finished>>
       ELSE /\ pc' = "redundancy"
            /\ report' = SetOptimizations(report,
                   Suggest(config.ai_client, test_cases,
                           [raises |-> TRUE, text |-> <<>>]))
            /\ finished' = finished \cup {"advisory"}
    /\ UNCHANGED <<frame, manager, inputs, test_cases, failed, coverage>>

\* The chat completion call comes back; suggest finishes and line 80
\* assigns its result.
AdvisoryReturns ==
    /\ pc = "await_advisory"
    /\ \E response \in AdvisoryResponses :
          report' = SetOptimizations(report,
              Suggest(config.ai_client, test_cases, response))
    /\ finished' = finished \cup {"advisory"}
    /\ pc' = "redundancy"
    /\ UNCHANGED <<frame, manager, inputs, test_cases, invoked, failed, coverage>>

\* Fault variant of SuggestRaises: the exception of suggest is not caught
\* at line 85 and reaches the outer handler, which returns an empty report.
SuggestRaisesAborts ==
    /\ pc = "advisory"
    /\ invoked' = invoked \cup {"advisory"}
    /\ finished' = finished \cup {"advisory"}
    /\ failed' = failed \cup {"advisory"}
    /\ report' = EmptyReport
    /\ pc' = "returned"
    /\ UNCHANGED <<frame, manager, inputs, test_cases, coverage>>

\* Lines 85-86: suggest raised.
SuggestRaises ==
    /\ pc = "advisory"
    /\ invoked' = invoked \cup {"advisory"}
    /\ finished' = finished \cup {"advisory"}
    /\ failed' = failed \cup {"advisory"}
    /\ pc' = "redundancy"
    /\ UNCHANGED <<frame, manager, inputs, test_cases, report, coverage>>

\* Lines 88-99: detect and the two assignments.
RedundancyStep ==
    /\ pc = "redundancy"
    /\ invoked' = invoked \cup {"redundancy"}
    /\ finished' = finished \cup {"redundancy"}
    /\ report' = SetRedundancy(report,
           Detect(config, test_cases, existing_tests, codebase_context))
    /\ pc' = "scoring"
    /\ UNCHANGED <<frame, manager, inputs, test_cases, failed, coverage>>

\* Lines 100-101: detect raised.
RedundancyRaises ==
    /\ pc = "redundancy"
    /\ invoked' = invoked \cup {"redundancy"}
    /\ finished' = finished \cup {"redundancy"}
    /\ failed' = failed \cup {"redundancy"}
    /\ pc' = "scoring"
    /\ UNCHANGED <<frame, manager, inputs, test_cases, report, coverage>>

\* Lines 103-107: the quality score, and return.
Scoring ==
    /\ pc = "scoring"
    /\ report' = [report EXCEPT !.quality_score = CalculateQualityScore(report)]
    /\ pc' = "returned"
    /\ UNCHANGED <<frame, manager, inputs, test_cases, invoked, finished, failed, coverage>>

\* generate_tests_for_issue, Steps 6-7: publish; a publish that fails
\* raises and ends the workflow.
Publish ==
    /\ pc = "returned"
    /\ \E success \in BOOLEAN : pc' = IF success THEN "coverage" ELSE "failed"
    /\ UNCHANGED <<frame, manager, inputs, test_cases, report, invoked, finished, failed, coverage>>

\* Step 8: CoverageAnalyzer.analyze, which holds the gap analysis; its
\* failure is logged and the workflow goes on.
CoverageStep ==
    /\ pc = "coverage"
    /\ coverage' \in {"disabled", "completed", "failed"}
    /\ pc' = "finished"
    /\ UNCHANGED <<frame, manager, inputs, test_cases, report, invoked, finished, failed>>

\* The steps the program takes on its own.
ProgramNext ==
    \/ OptimizeDisabled
    \/ Extract
    \/ SimilarityStart
    \/ SimilarityRaises
    \/ SuggestStart
    \/ SuggestRaises
    \/ RedundancyStep
    \/ RedundancyRaises
    \/ Scoring
    \/ Publish
    \/ CoverageStep

\* The steps that wait for an external service to answer.
ServiceNext ==
    \/ EmbeddingReturns
    \/ AdvisoryReturns

Next == ProgramNext \/ ServiceNext

Spec == Init /\ [][Next]_vars

----------------------------------------------------------------------------
(* _parse_tests on its own: every source of ExtractorSources is parsed.    *)

InitExtract ==
    /\ pc = "extract_ready"
    /\ generated_tests \in ExtractorSources
    /\ config \in {c \in ConfigChoices : c.enabled /\ c.similarity_client /\ c.ai_client
                                         /\ c.check_redundant /\ c.check_outdated}
    /\ existing_tests = <<>>
    /\ codebase_context = [relevant_code |-> <<>>]
    /\ test_cases = <<>>
    /\ report = EmptyReport
    /\ invoked = {}
    /\ finished = {}
    /\ failed = {}
    /\ coverage = "not_run"
    /\ args = NoFrame
    /\ result = NoFrame
    /\ ManagerUnused

\* test_cases = self._parse_tests(generated_tests)
ExtractApply ==
    /\ pc = "extract_ready"
    /\ LET parsed == ParseTests(generated_tests)
       IN  /\ test_cases' = parsed.value
           /\ pc' = IF parsed.raised THEN "extract_raised" ELSE "extracted"
    /\ UNCHANGED <<frame, manager, inputs, report, invoked, finished, failed, coverage>>

ExtractSpec == InitExtract /\ [][ExtractApply]_vars

----------------------------------------------------------------------------
(* _calculate_quality_score on its own: reports with every combination of  *)
(* finding counts up to MaxFindings per category, and findings added to a  *)
(* scored report.                                                          *)

MaxFindings == 6

SamplePair ==
    CreateSimilarPair([name |-> "test_a"], [name |-> "test_b"], <<1, 0>>, <<1, 0>>)
SampleSuggestion == FallbackParse([mentions |-> {"fixture"}])[1]
SampleRedundant  == SameNameFinding("test_a")
SampleOutdated   == OutdatedFinding("test_b", "Import", ModuleM)

Repeat(x, n) == [i \in 1..n |-> x]

InitScore ==
    /\ pc = "score_ready"
    /\ \E s \in 0..MaxFindings, a \in 0..MaxFindings,
          r \in 0..MaxFindings, o \in 0..MaxFindings :
          report = [similar_pairs   |-> Repeat(SamplePair, s),
                    optimizations   |-> Repeat(SampleSuggestion, a),
                    redundant_tests |-> Repeat(SampleRedundant, r),
                    outdated_tests  |-> Repeat(SampleOutdated, o),
                    quality_score   |-> 40]
    /\ config \in {c \in ConfigChoices : c.enabled /\ c.similarity_client /\ c.ai_client
                                         /\ c.check_redundant /\ c.check_outdated}
    /\ generated_tests = MalformedSource
    /\ existing_tests = <<>>
    /\ codebase_context = [relevant_code |-> <<>>]
    /\ test_cases = <<>>
    /\ invoked = {}
    /\ finished = {}
    /\ failed = {}
    /\ coverage = "not_run"
    /\ args = NoFrame
    /\ result = NoFrame
    /\ ManagerUnused

\* report.quality_score = self._calculate_quality_score(report)
ScoreApply ==
    /\ pc = "score_ready"
    /\ report' = [report EXCEPT !.quality_score = CalculateQualityScore(report)]
    /\ pc' = "scored"
    /\ UNCHANGED <<frame, manager, inputs, test_cases, invoked, finished, failed, coverage>>

\* One more finding of some category, and the score of the larger report.
AddFinding ==
    /\ pc \in {"scored", "rescored"}
    /\ \E category \in {"similar_pairs", "optimizations", "redundant_tests", "outdated_tests"} :
          /\ Len(report[category]) < MaxFindings
          /\ LET sample == CASE category = "similar_pairs"   -> SamplePair
                             [] category = "optimizations"   -> SampleSuggestion
                             [] category = "redundant_tests" -> SampleRedundant
                             [] category = "outdated_tests"  -> SampleOutdated
                 more   == [report EXCEPT ![category] = Append(@, sample)]
             IN  report' = [more EXCEPT !.quality_score = CalculateQualityScore(more)]
    /\ pc' = "rescored"
    /\ UNCHANGED <<frame, manager, inputs, test_cases, invoked, finished, failed, coverage>>

ScoreSpec == InitScore /\ [][ScoreApply \/ AddFinding]_vars

----------------------------------------------------------------------------
(* Methods run on their own.  `args` holds the arguments (and, for a       *)
(* method that calls a service, what the service does), `result` the       *)
(* returned value; the variables of the workflow stay as NotInWorkflow      *)
(* leaves them.                                                            *)

workflow == <<inputs, test_cases, report, invoked, finished, failed, coverage>>

NotInWorkflow ==
    /\ config \in {c \in ConfigChoices : c.enabled /\ c.similarity_client /\ c.ai_client
                                         /\ c.check_redundant /\ c.check_outdated}
    /\ generated_tests = MalformedSource
    /\ existing_tests = <<>>
    /\ codebase_context = [relevant_code |-> <<>>]
    /\ test_cases = <<>>
    /\ report = EmptyReport
    /\ invoked = {}
    /\ finished = {}
    /\ failed = {}
    /\ coverage = "not_run"

----------------------------------------------------------------------------
(* SimilarityAnalyzer.analyze on its own.  The vectors have integer norms, *)
(* or a cosine away from every threshold, so that the floating point       *)
(* cosine compares with 0.7, 0.8 and 0.9 as the exact one does.            *)

MaxSimilarityTests == 3

SimilarityVectors ==
    {<<1, 0, 0, 0>>,    \* the reference direction
     <<7, 1, 5, 5>>,    \* cosine 0.7 with the reference
     <<4, 3, 0, 0>>,    \* cosine 0.8 with the reference
     <<33, 16, 0, 0>>,  \* cosine 0.89981... with the reference
     <<0, 1, 0, 0>>,    \* orthogonal to the reference
     <<0, 0, 0, 0>>}    \* norm 0

SimilarityTestCases(n) == [i \in 1..n |-> [name |-> <<"test", i>>]]

InitSimilarity ==
    /\ pc = "analyze_ready"
    /\ \E n \in 0..MaxSimilarityTests, client \in BOOLEAN :
          \E response \in ResponsesOver(SimilarityVectors, n) :
             args = [method     |-> "analyze",
                     client     |-> client,
                     test_cases |-> SimilarityTestCases(n),
                     response   |-> response]
    /\ result = NoFrame
    /\ ManagerUnused
    /\ NotInWorkflow

\* similar_pairs = self.similarity_analyzer.analyze(test_cases)
AnalyzeApply ==
    /\ pc = "analyze_ready"
    /\ result' = SimilarityAnalyze(args.client, args.test_cases, args.response)
    /\ pc' = "analyzed"
    /\ UNCHANGED <<args, workflow, manager>>

SimilaritySpec == InitSimilarity /\ [][AnalyzeApply]_vars

----------------------------------------------------------------------------
(* RedundancyDetector._find_redundant on its own. *)

MaxExistingFiles == 2

\* An existing file whose test_a asserts something else, beside a test_b.
ExistingFileAB ==
    [valid |-> TRUE,
     defs  |-> <<FunctionNode("test_a", <<<<"p">>>>, <<>>), NodeTestB>>]

ExistingFiles ==
    UNION {[1..k -> {MalformedSource, ExistingFile, ExistingFileAB}] :
              k \in 0..MaxExistingFiles}

InitRedundant ==
    /\ pc = "find_redundant_ready"
    /\ \E src \in PipelineSources, files \in ExistingFiles :
          args = [method         |-> "_find_redundant",
                  test_cases     |-> ParseTests(src).value,
                  existing_tests |-> files]
    /\ result = NoFrame
    /\ ManagerUnused
    /\ NotInWorkflow

\* redundant_tests = self._find_redundant(test_cases, existing_tests)
FindRedundantApply ==
    /\ pc = "find_redundant_ready"
    /\ result' = FindRedundant(args.test_cases, args.existing_tests)
    /\ pc' = "find_redundant_done"
    /\ UNCHANGED <<args, workflow, manager>>

RedundancySpec == InitRedundant /\ [][FindRedundantApply]_vars

----------------------------------------------------------------------------
(* RedundancyDetector._assertions_overlap on its own. *)

MaxAssertions == 3

\* The assertion texts x, xa, xb and p: x is a substring of xa and of xb.
AssertionTexts == {<<"x">>, <<"x", "a">>, <<"x", "b">>, <<"p">>}

AssertionLists == UNION {[1..k -> AssertionTexts] : k \in 0..MaxAssertions}

InitOverlap ==
    /\ pc = "overlap_ready"
    /\ \E a1 \in AssertionLists, a2 \in AssertionLists :
          args = [method |-> "_assertions_overlap", assertions1 |-> a1, assertions2 |-> a2]
    /\ result = NoFrame
    /\ ManagerUnused
    /\ NotInWorkflow

\* self._assertions_overlap(new_assertions, existing_assertions)
OverlapApply ==
    /\ pc = "overlap_ready"
    /\ result' = AssertionsOverlap(args.assertions1, args.assertions2)
    /\ pc' = "overlap_done"
    /\ UNCHANGED <<args, workflow, manager>>

OverlapSpec == InitOverlap /\ [][OverlapApply]_vars

----------------------------------------------------------------------------
(* RedundancyDetector._find_outdated on its own: one new test, at module   *)
(* level or as a method of a class, with up to MaxImports import           *)
(* statements in its body.                                                 *)

MaxImports == 2

ImportChoices ==
    {[stmt |-> "Import",     module |-> ModuleM],                      \* import m
     [stmt |-> "ImportFrom", module |-> ModuleM],                      \* from m import f
     [stmt |-> "Import",     module |-> <<"o", "s">>],                 \* import os
     [stmt |-> "Import",     module |-> <<"o", "s", ".", "p">>],       \* import os.p
     [stmt |-> "ImportFrom", module |-> <<>>],                         \* from . import f
     [stmt |-> "Import",     module |-> <<"a", ".", "m">>],            \* import a.m
     [stmt |-> "Import",     module |-> <<"q">>]}                      \* import q

ImportLists == UNION {[1..k -> ImportChoices] : k \in 0..MaxImports}

StalenessSources ==
    {[valid |-> TRUE, defs |-> <<FunctionNode("test_a", <<>>, imps)>>] :
        imps \in ImportLists}
    \cup
    {[valid |-> TRUE,
      defs  |-> <<NodeClass, [FunctionNode("test_a", <<>>, imps) EXCEPT !.parent = 1]>>] :
        imps \in ImportLists}

InitOutdated ==
    /\ pc = "find_outdated_ready"
    /\ \E src \in StalenessSources, context \in ContextChoices :
          args = [method           |-> "_find_outdated",
                  test_cases       |-> ParseTests(src).value,
                  codebase_context |-> context]
    /\ result = NoFrame
    /\ ManagerUnused
    /\ NotInWorkflow

\* outdated_tests = self._find_outdated(test_cases, codebase_context)
FindOutdatedApply ==
    /\ pc = "find_outdated_ready"
    /\ result' = FindOutdated(args.test_cases, args.codebase_context)
    /\ pc' = "find_outdated_done"
    /\ UNCHANGED <<args, workflow, manager>>

StalenessSpec == InitOutdated /\ [][FindOutdatedApply]_vars

----------------------------------------------------------------------------
(* GapAnalyzer (backend/app/coverage/gap_analyzer.py). *)

\* The loop of _group_line_ranges after its first line.
RECURSIVE GroupFrom(_, _, _, _)
GroupFrom(rest, start, prev, max_gap) ==
    IF rest = <<>> THEN <<<<start, prev>>>>
    ELSE IF Head(rest) - prev > max_gap
         THEN <<<<start, prev>>>> \o GroupFrom(Tail(rest), Head(rest), Head(rest), max_gap)
         ELSE GroupFrom(Tail(rest), start, Head(rest), max_gap)

\* Fault variant of GroupLineRanges: the range still open when the lines run
\* out is not added.
GroupLineRangesWithoutLast(lines, max_gap) ==
    IF lines = <<>> THEN <<>>
    ELSE LET ranges == GroupFrom(Tail(lines), lines[1], lines[1], max_gap)
         IN  SubSeq(ranges, 1, Len(ranges) - 1)

\* GapAnalyzer._group_line_ranges
GroupLineRanges(lines, max_gap) ==
    IF lines = <<>> THEN <<>>
    ELSE GroupFrom(Tail(lines), lines[1], lines[1], max_gap)

\* int(k) for a key written in decimal digits.
DigitValue(c) ==
    CASE c = "0" -> 0 [] c = "1" -> 1 [] c = "2" -> 2 [] c = "3" -> 3 [] c = "4" -> 4
      [] c = "5" -> 5 [] c = "6" -> 6 [] c = "7" -> 7 [] c = "8" -> 8 [] c = "9" -> 9

RECURSIVE IntOf(_)
IntOf(key) ==
    IF key = <<>> THEN 0
    ELSE 10 * IntOf(SubSeq(key, 1, Len(key) - 1)) + DigitValue(key[Len(key)])

\* sorted(): ascending, equal members kept.
RECURSIVE InsertAscending(_, _)
InsertAscending(x, sorted) ==
    IF sorted = <<>> THEN <<x>>
    ELSE IF Head(sorted) <= x
         THEN <<Head(sorted)>> \o InsertAscending(x, Tail(sorted))
         ELSE <<x>> \o sorted

RECURSIVE SortedList(_)
SortedList(seq) ==
    IF seq = <<>> THEN <<>>
    ELSE InsertAscending(seq[Len(seq)], SortedList(SubSeq(seq, 1, Len(seq) - 1)))

\* [int(k) for k, v in items if v == 0], items in the order of the dict.
RECURSIVE ZeroKeys(_)
ZeroKeys(items) ==
    IF items = <<>> THEN <<>>
    ELSE (IF Head(items).count = 0 THEN <<IntOf(Head(items).key)>> ELSE <<>>)
         \o ZeroKeys(Tail(items))

\* Fault variant of GetUncoveredLines: the statement map is not read.
GetUncoveredLinesListOnly(file_data) ==
    SortedList(IF "missing_lines" \in file_data.has THEN file_data.missing_lines
               ELSE <<>>)

\* GapAnalyzer._get_uncovered_lines; file_data.has is the set of keys of
\* the entry.
GetUncoveredLines(file_data) ==
    SortedList(IF "missing_lines" \in file_data.has THEN file_data.missing_lines
               ELSE IF "s" \in file_data.has THEN ZeroKeys(file_data.s)
               ELSE IF "lines" \in file_data.has THEN ZeroKeys(file_data.lines)
               ELSE <<>>)

\* _build_function_map and _find_function_at_line: `functions` are the
\* function definitions in the order of ast.walk, a later one overwrites
\* the lines of an earlier one; None when no function holds the line.
FindFunctionAtLine(line, functions) ==
    LET holding == {k \in DOMAIN functions :
                       functions[k].lineno <= line /\ line <= functions[k].end_lineno}
    IN  IF holding = {} THEN "None"
        ELSE functions[CHOOSE k \in holding : \A h \in holding : h <= k].name

\* GapAnalyzer._generate_reason
GenerateReason(function_name, complexity) ==
    IF function_name # "None"
    THEN IF complexity > 10 THEN <<"Large uncovered function: ", function_name>>
         ELSE <<"Uncovered function: ", function_name>>
    ELSE IF complexity > 10 THEN <<"Large uncovered code block">>
         ELSE <<"Uncovered code section">>

\* CoverageGap(...), lines 88-98.
GapOf(file_path, range, functions) ==
    LET function_name == FindFunctionAtLine(range[1], functions)
        complexity    == range[2] - range[1] + 1
    IN  [file_path     |-> file_path,
         line_start    |-> range[1],
         line_end      |-> range[2],
         function_name |-> function_name,
         complexity    |-> complexity,
         reason        |-> GenerateReason(function_name, complexity)]

\* Fault variant of AnalyzeFile: a file that does not parse gets no gaps.
AnalyzeFileParsedOnly(file_path, file_data, disk) ==
    LET uncovered_lines == GetUncoveredLines(file_data)
        line_ranges     == GroupLineRanges(uncovered_lines, 3)
    IN  IF uncovered_lines = <<>> THEN <<>>
        ELSE IF disk.state # "parsed" THEN <<>>
        ELSE [k \in DOMAIN line_ranges |-> GapOf(file_path, line_ranges[k], disk.functions)]

\* GapAnalyzer._analyze_file.  disk.state tells what the path resolves to:
\* "missing" (no such file), "unparsable" (ast.parse raises, the function
\* map stays empty) or "parsed".
AnalyzeFile(file_path, file_data, disk) ==
    LET uncovered_lines == GetUncoveredLines(file_data)
        function_map    == IF disk.state = "parsed" THEN disk.functions ELSE <<>>
        line_ranges     == GroupLineRanges(uncovered_lines, 3)
    IN  IF uncovered_lines = <<>> THEN <<>>
        ELSE IF disk.state = "missing" THEN <<>>
        ELSE [k \in DOMAIN line_ranges |-> GapOf(file_path, line_ranges[k], function_map)]

\* gaps.sort(key=lambda g: g.complexity, reverse=True): stable, a gap goes
\* behind the gaps before it that are at least as complex.
RECURSIVE InsertByComplexity(_, _)
InsertByComplexity(g, sorted) ==
    IF sorted = <<>> THEN <<g>>
    ELSE IF Head(sorted).complexity >= g.complexity
         THEN <<Head(sorted)>> \o InsertByComplexity(g, Tail(sorted))
         ELSE <<g>> \o sorted

RECURSIVE SortByComplexity(_)
SortByComplexity(gaps) ==
    IF gaps = <<>> THEN <<>>
    ELSE InsertByComplexity(gaps[Len(gaps)], SortByComplexity(SubSeq(gaps, 1, Len(gaps) - 1)))

\* The gaps of all files, in the order of coverage_data.files.
AllGaps(files) ==
    Flatten([k \in DOMAIN files |-> AnalyzeFile(files[k].path, files[k].data, files[k].disk)])

\* Fault variant of IdentifyGaps: the gaps are cut without being sorted.
IdentifyGapsUnsorted(files, max_gaps) ==
    LET gaps == AllGaps(files)
    IN  SubSeq(gaps, 1, Min(max_gaps, Len(gaps)))

\* GapAnalyzer.identify_gaps, for max_gaps >= 0.
IdentifyGaps(files, max_gaps) ==
    LET gaps == SortByComplexity(AllGaps(files))
    IN  SubSeq(gaps, 1, Min(max_gaps, Len(gaps)))

----------------------------------------------------------------------------
(* GapAnalyzer._group_line_ranges on its own: every ascending list of      *)
(* lines between 10 and MaxLine, every tolerance up to MaxTolerance.       *)

MaxLine == 15
MaxTolerance == 3

\* sorted(uncovered) keeps a line that is listed twice.
WithRepeat(lines, i) == SubSeq(lines, 1, i) \o SubSeq(lines, i, Len(lines))

SortedLineLists ==
    LET strict == {Ascending(S) : S \in SUBSET (10..MaxLine)}
    IN  strict \cup UNION {{WithRepeat(lines, i) : i \in DOMAIN lines} : lines \in strict}

InitGroup ==
    /\ pc = "group_ready"
    /\ \E lines \in SortedLineLists, max_gap \in 0..MaxTolerance :
          args = [method |-> "_group_line_ranges", lines |-> lines, max_gap |-> max_gap]
    /\ result = NoFrame
    /\ ManagerUnused
    /\ NotInWorkflow

\* line_ranges = self._group_line_ranges(lines, max_gap)
GroupApply ==
    /\ pc = "group_ready"
    /\ result' = GroupLineRanges(args.lines, args.max_gap)
    /\ pc' = "grouped"
    /\ UNCHANGED <<args, workflow, manager>>

GroupSpec == InitGroup /\ [][GroupApply]_vars

----------------------------------------------------------------------------
(* GapAnalyzer.identify_gaps on its own. *)

MaxCoverageFiles == 2
MaxGapsLimit == 3

NoData == [has |-> {}, missing_lines |-> <<>>, s |-> <<>>, lines |-> <<>>]

\* Entries of coverage_data.files: the missing-lines list of coverage.py,
\* the statement counts of istanbul, and an entry with neither key.
FileDataChoices ==
    {[NoData EXCEPT !.has = {"missing_lines"}, !.missing_lines = <<1, 2, 3, 6>>],
     [NoData EXCEPT !.has = {"missing_lines"}, !.missing_lines = <<7, 1>>],
     [NoData EXCEPT !.has = {"missing_lines"}, !.missing_lines = <<4, 5>>],
     [NoData EXCEPT !.has = {"s"},
                    !.s = <<[key |-> <<"9">>, count |-> 0],
                            [key |-> <<"3">>, count |-> 1],
                            [key |-> <<"1", "0">>, count |-> 0]>>],
     [NoData EXCEPT !.has = {"summary"}]}

DiskChoices ==
    {[state |-> "missing", functions |-> <<>>],
     [state |-> "unparsable", functions |-> <<>>],
     [state |-> "parsed", functions |-> <<[name |-> "f", lineno |-> 1, end_lineno |-> 3]>>]}

\* coverage_data.files with up to n entries, in the order of the dict.
CoverageFiles(n) ==
    UNION {{[i \in 1..k |-> [path |-> <<"file", i>>, data |-> d[i], disk |-> on[i]]] :
               d \in [1..k -> FileDataChoices], on \in [1..k -> DiskChoices]} :
           k \in 0..n}

InitGaps ==
    /\ pc = "identify_gaps_ready"
    /\ \E files \in CoverageFiles(MaxCoverageFiles), max_gaps \in 0..MaxGapsLimit :
          args = [method |-> "identify_gaps", files |-> files, max_gaps |-> max_gaps]
    /\ result = NoFrame
    /\ ManagerUnused
    /\ NotInWorkflow

\* gaps = self.identify_gaps(coverage_data, max_gaps)
IdentifyGapsApply ==
    /\ pc = "identify_gaps_ready"
    /\ result' = IdentifyGaps(args.files, args.max_gaps)
    /\ pc' = "gaps_identified"
    /\ UNCHANGED <<args, workflow, manager>>

GapSpec == InitGaps /\ [][IdentifyGapsApply]_vars

----------------------------------------------------------------------------
(* GapAnalyzer._get_uncovered_lines on its own. *)

MaxEntries == 3

\* Line numbers as coverage.py lists them, in any order, repeats allowed.
MissingLineLists == UNION {[1..k -> {2, 9, 10}] : k \in 0..MaxEntries}

\* Statement counts as istanbul writes them: distinct keys in decimal
\* digits, in the order of the dict, each with a count.
CountKeys == {<<"2">>, <<"9">>, <<"1", "0">>}

CountMaps ==
    UNION {{[i \in 1..k |-> [key |-> keys[i], count |-> counts[i]]] :
               keys \in {f \in [1..k -> CountKeys] : \A i, j \in 1..k : i # j => f[i] # f[j]},
               counts \in [1..k -> {0, 1}]} :
           k \in 0..Min(MaxEntries, Cardinality(CountKeys))}

FileDataShapes ==
    {[NoData EXCEPT !.has = {"missing_lines"}, !.missing_lines = m] : m \in MissingLineLists}
    \cup {[NoData EXCEPT !.has = {"s"}, !.s = c] : c \in CountMaps}
    \cup {[NoData EXCEPT !.has = {"lines"}, !.lines = c] : c \in CountMaps}
    \cup {[NoData EXCEPT !.has = {"missing_lines", "s"}, !.missing_lines = <<9, 2>>, !.s = c] :
             c \in CountMaps}
    \cup {[NoData EXCEPT !.has = h] : h \in {{}, {"summary"}}}

InitUncovered ==
    /\ pc = "uncovered_ready"
    /\ \E file_data \in FileDataShapes :
          args = [method |-> "_get_uncovered_lines", file_data |-> file_data]
    /\ result = NoFrame
    /\ ManagerUnused
    /\ NotInWorkflow

\* uncovered_lines = self._get_uncovered_lines(file_data)
UncoveredApply ==
    /\ pc = "uncovered_ready"
    /\ result' = GetUncoveredLines(args.file_data)
    /\ pc' = "uncovered_done"
    /\ UNCHANGED <<args, workflow, manager>>

UncoveredSpec == InitUncovered /\ [][UncoveredApply]_vars

----------------------------------------------------------------------------
(* CoverageAnalyzer.analyze on its own.  Percentages are kept in           *)
(* hundredths of a percent.                                                *)

MaxSnapshotFiles == 2

\* The members of seq at the positions S, in order.
SubsequenceAt(seq, S) == [k \in 1..Cardinality(S) |-> seq[Ascending(S)[k]]]

\* The keys of a files dict.
PathsOf(files) == {files[k].path : k \in DOMAIN files}

\* files.get(file_path, {}): has = {} is the empty dict.
EmptyEntry ==
    [has |-> {}, missing_lines |-> <<>>, s |-> <<>>, lines |-> <<>>,
     percent_covered |-> 0]

FileDataOf(files, file_path) ==
    IF file_path \in PathsOf(files)
    THEN files[CHOOSE k \in DOMAIN files : files[k].path = file_path].data
    ELSE EmptyEntry

\* CoverageAnalyzer._get_file_coverage
GetFileCoverage(file_data) ==
    IF file_data.has = {} THEN 0
    ELSE IF "summary" \in file_data.has THEN file_data.percent_covered
    ELSE IF "s" \in file_data.has
         THEN IF file_data.s = <<>> THEN 0
              ELSE LET covered == Cardinality({k \in DOMAIN file_data.s :
                                                  file_data.s[k].count > 0})
                   IN  (covered * 10000) \div Len(file_data.s)
    ELSE 0

\* ModuleCoverage(...), lines 237-242.
ModuleOf(file_path, before_files, after_files) ==
    LET before_cov == GetFileCoverage(FileDataOf(before_files, file_path))
        after_cov  == GetFileCoverage(FileDataOf(after_files, file_path))
    IN  [file_path |-> file_path,
         before    |-> before_cov,
         after     |-> after_cov,
         change    |-> after_cov - before_cov]

\* Fault variant of CalculateModuleChanges: only the files of the second
\* snapshot are listed.
CalculateModuleChangesAfterOnly(before_files, after_files, order) ==
    LET listed == SubsequenceAt(order, {k \in DOMAIN order : order[k] \in PathsOf(after_files)})
    IN  [k \in DOMAIN listed |-> ModuleOf(listed[k], before_files, after_files)]

\* CoverageAnalyzer._calculate_module_changes; `order` is the order in
\* which the set all_files is iterated.
CalculateModuleChanges(before_files, after_files, order) ==
    LET all_files == PathsOf(before_files) \cup PathsOf(after_files)
        listed    == SubsequenceAt(order, {k \in DOMAIN order : order[k] \in all_files})
    IN  [k \in DOMAIN listed |-> ModuleOf(listed[k], before_files, after_files)]

\* by_file of generate_recommendations: the file paths of the gaps in
\* the order of their first gap.
RECURSIVE FilesOfGaps(_)
FilesOfGaps(gaps) ==
    IF gaps = <<>> THEN <<>>
    ELSE LET earlier == FilesOfGaps(SubSeq(gaps, 1, Len(gaps) - 1))
             path    == gaps[Len(gaps)].file_path
         IN  IF \E k \in DOMAIN earlier : earlier[k] = path THEN earlier
             ELSE Append(earlier, path)

\* GapAnalyzer.generate_recommendations: one recommendation for each of
\* the first five files, naming up to three functions or, when no gap of
\* the file has a function, up to two line ranges.
GenerateRecommendations(gaps) ==
    LET by_file == FilesOfGaps(gaps)
        top     == SubSeq(by_file, 1, Min(5, Len(by_file)))
        Of(path) ==
            LET file_gaps  == SubsequenceAt(gaps, {k \in DOMAIN gaps : gaps[k].file_path = path})
                with_names == SubsequenceAt(file_gaps, {k \in DOMAIN file_gaps :
                                                            file_gaps[k].function_name # "None"})
            IN  IF with_names # <<>>
                THEN [text |-> "Add tests for", file_path |-> path,
                      items |-> [k \in 1..Min(3, Len(with_names)) |->
                                    <<with_names[k].function_name>>]]
                ELSE [text |-> "Cover", file_path |-> path,
                      items |-> [k \in 1..Min(2, Len(file_gaps)) |->
                                    <<file_gaps[k].line_start, file_gaps[k].line_end>>]]
    IN  [k \in DOMAIN top |-> Of(top[k])]

\* _create_disabled_report and _create_error_report
UnsuccessfulReport(error_message) ==
    [before_coverage |-> 0, after_coverage |-> 0, coverage_gain |-> 0,
     modules |-> <<>>, gaps |-> <<>>, recommendations |-> <<>>,
     success |-> FALSE, error_message |-> error_message]

\* CoverageAnalyzer.analyze.  `run` tells how far the run gets: the
\* analyzer is disabled, the clone fails, no runner fits the language,
\* the coverage tool is not installed, a coverage run raises, or both
\* snapshots are taken.
Analyze(run, include_gaps, include_recommendations, before_data, after_data, order) ==
    IF run = "disabled" THEN UnsuccessfulReport("Coverage analysis is disabled")
    ELSE IF run = "clone_failed" THEN UnsuccessfulReport("Failed to clone repository")
    ELSE IF run = "no_runner" THEN UnsuccessfulReport("No coverage runner for language")
    ELSE IF run = "no_dependencies" THEN UnsuccessfulReport("Coverage tool not available")
    ELSE IF run = "run_raised" THEN UnsuccessfulReport("run_coverage raised")
    ELSE LET modules == CalculateModuleChanges(before_data.files, after_data.files, order)
             gaps    == IF include_gaps THEN IdentifyGaps(after_data.files, 10) ELSE <<>>
             recommendations ==
                 IF include_gaps /\ include_recommendations
                 THEN GenerateRecommendations(gaps) ELSE <<>>
         IN  [before_coverage |-> before_data.total_coverage,
              after_coverage  |-> after_data.total_coverage,
              coverage_gain   |-> after_data.total_coverage - before_data.total_coverage,
              modules         |-> modules,
              gaps            |-> gaps,
              recommendations |-> recommendations,
              success         |-> TRUE,
              error_message   |-> "None"]

\* Entries of a snapshot: a coverage.py entry with a summary, an istanbul
\* entry with statement counts, and an entry with neither.
SnapshotEntries ==
    {[EmptyEntry EXCEPT !.has = {"summary", "missing_lines"},
                        !.missing_lines = <<2, 3>>, !.percent_covered = 6250],
     [EmptyEntry EXCEPT !.has = {"s"},
                        !.s = <<[key |-> <<"1">>, count |-> 2],
                                [key |-> <<"2">>, count |-> 0],
                                [key |-> <<"3">>, count |-> 0]>>],
     [EmptyEntry EXCEPT !.has = {"lines"},
                        !.lines = <<[key |-> <<"7">>, count |-> 0]>>]}

\* What the clone holds at the path of file i.
DiskOf(i) ==
    IF i = 1
    THEN [state |-> "parsed", functions |-> <<[name |-> "f", lineno |-> 1, end_lineno |-> 3]>>]
    ELSE IF i = 2 THEN [state |-> "unparsable", functions |-> <<>>]
    ELSE [state |-> "missing", functions |-> <<>>]

\* The files dict of a snapshot: any of the files, in ascending order.
SnapshotFiles ==
    UNION {{[k \in 1..Cardinality(S) |->
                LET i == Ascending(S)[k]
                IN  [path |-> <<"file", i>>, data |-> d[i], disk |-> DiskOf(i)]] :
               d \in [S -> SnapshotEntries]} :
           S \in SUBSET (1..MaxSnapshotFiles)}

Snapshots == [total_coverage : {4000, 7550}, files : SnapshotFiles]

\* The orders in which a set of the file paths can be iterated.
IterationOrders ==
    {order \in [1..MaxSnapshotFiles -> {<<"file", i>> : i \in 1..MaxSnapshotFiles}] :
        \A i, j \in 1..MaxSnapshotFiles : i # j => order[i] # order[j]}

AnalyzeRuns ==
    {[run |-> r, include_gaps |-> TRUE, include_recommendations |-> TRUE] :
        r \in {"disabled", "clone_failed", "no_runner", "no_dependencies", "run_raised"}}
    \cup [run : {"both_snapshots"}, include_gaps : BOOLEAN, include_recommendations : BOOLEAN]

InitCoverage ==
    /\ pc = "coverage_analyze_ready"
    /\ \E how \in AnalyzeRuns, before_data \in Snapshots, after_data \in Snapshots :
          args = [method |-> "analyze", how |-> how,
                  before_data |-> before_data, after_data |-> after_data]
    /\ result = NoFrame
    /\ ManagerUnused
    /\ NotInWorkflow

\* coverage_report = coverage_analyzer.analyze(...)
CoverageAnalyzeApply ==
    /\ pc = "coverage_analyze_ready"
    /\ \E order \in IterationOrders :
          result' = Analyze(args.how.run, args.how.include_gaps,
                            args.how.include_recommendations,
                            args.before_data, args.after_data, order)
    /\ pc' = "coverage_analyzed"
    /\ UNCHANGED <<args, workflow, manager>>

CoverageSpec == InitCoverage /\ [][CoverageAnalyzeApply]_vars

----------------------------------------------------------------------------
(* OptimizationReport.to_markdown on the report optimize returned.         *)

\* Fault variant of HasIssues: the advisory suggestions are not looked at.
HasIssuesWithoutSuggestions(r) ==
    r.similar_pairs # <<>> \/ r.redundant_tests # <<>> \/ r.outdated_tests # <<>>

\* OptimizationReport.has_issues
HasIssues(r) ==
    \/ r.similar_pairs # <<>>
    \/ r.optimizations # <<>>
    \/ r.redundant_tests # <<>>
    \/ r.outdated_tests # <<>>

\* OptimizationReport.summary_counts
SummaryCounts(r) ==
    [similar_tests |-> Len(r.similar_pairs),
     optimizations |-> Len(r.optimizations),
     redundant     |-> Len(r.redundant_tests),
     outdated      |-> Len(r.outdated_tests)]

\* _build_clean_report: the fixed text, which ends in "Quality Score: 10/10".
BuildCleanReport == <<[section |-> "Test Quality Check Passed", score |-> <<10>>]>>

\* _build_summary
BuildSummary(r) ==
    LET counts == SummaryCounts(r)
    IN  [section |-> "Summary",
         lines   |->
            (IF counts.similar_tests > 0
             THEN <<<<counts.similar_tests, "similar test(s) detected">>>>
             ELSE <<<<"No similar tests detected">>>>)
            \o (IF counts.optimizations > 0
                THEN <<<<counts.optimizations, "optimization opportunity(s) found">>>>
                ELSE <<<<"No optimization opportunities">>>>)
            \o (IF counts.redundant > 0
                THEN <<<<counts.redundant, "redundant test(s) identified">>>> ELSE <<>>)
            \o (IF counts.outdated > 0
                THEN <<<<counts.outdated, "outdated test(s) found">>>> ELSE <<>>)]

\* f"{pair.similarity * 100:.0f}" for a similarity of three places that is
\* at least 0.7: the nearest whole percent, a half going to the even one.
PercentOf(thousandths) ==
    LET lo == thousandths \div 10
        r  == thousandths % 10
    IN  IF r > 5 \/ (r = 5 /\ lo % 2 = 1) THEN lo + 1 ELSE lo

\* _build_similarity_section
BuildSimilaritySection(similar_pairs) ==
    [section |-> "Similar Tests",
     items   |-> [k \in DOMAIN similar_pairs |->
                    [percent    |-> PercentOf(similar_pairs[k].similarity),
                     tests      |-> <<similar_pairs[k].test1, similar_pairs[k].test2>>,
                     suggestion |-> similar_pairs[k].suggestion]]]

\* _build_suggestions_section
BuildSuggestionsSection(optimizations) ==
    [section |-> "AI-Powered Optimization Suggestions",
     items   |-> [k \in DOMAIN optimizations |->
                    [type       |-> optimizations[k].type,
                     tests      |-> optimizations[k].tests,
                     reason     |-> optimizations[k].reason,
                     suggestion |-> optimizations[k].suggestion]]]

\* _build_issues_section
BuildIssuesSection(redundant_tests, outdated_tests) ==
    [section   |-> "Potential Issues",
     redundant |-> [k \in DOMAIN redundant_tests |->
                      [test      |-> redundant_tests[k].test,
                       reason    |-> redundant_tests[k].reason,
                       conflicts |-> redundant_tests[k].existing_test,
                       action    |-> redundant_tests[k].suggestion]],
     outdated  |-> [k \in DOMAIN outdated_tests |->
                      [test  |-> outdated_tests[k].test,
                       mark  |-> IF outdated_tests[k].severity = "high"
                                 THEN "red" ELSE "yellow",
                       issue |-> outdated_tests[k].issue,
                       fix   |-> outdated_tests[k].fix]]]

\* f"{quality_score:.1f}" for a score in quarter points: tenths, a half
\* going to the even tenth (7.75 prints as 7.8, 7.25 as 7.2).
ScoreInTenths(quarters) ==
    LET twice == 5 * quarters
        lo    == twice \div 2
    IN  IF twice % 2 = 1 /\ lo % 2 = 1 THEN lo + 1 ELSE lo

\* _build_quality_section
BuildQualitySection(quality_score) ==
    [section |-> "Quality Score",
     tenths  |-> ScoreInTenths(quality_score),
     rating  |-> IF quality_score >= 36 THEN "Excellent"
                 ELSE IF quality_score >= 28 THEN "Good"
                 ELSE IF quality_score >= 20 THEN "Fair"
                 ELSE "Needs Improvement"]

\* ReportBuilder.build_markdown: the parts of the text in order.
BuildMarkdown(r) ==
    IF ~HasIssues(r) THEN BuildCleanReport
    ELSE <<[section |-> "Test Case Optimization Report"], BuildSummary(r)>>
         \o (IF r.similar_pairs # <<>>
             THEN <<BuildSimilaritySection(r.similar_pairs)>> ELSE <<>>)
         \o (IF r.optimizations # <<>>
             THEN <<BuildSuggestionsSection(r.optimizations)>> ELSE <<>>)
         \o (IF r.redundant_tests # <<>> \/ r.outdated_tests # <<>>
             THEN <<BuildIssuesSection(r.redundant_tests, r.outdated_tests)>> ELSE <<>>)
         \o <<BuildQualitySection(r.quality_score)>>

\* optimization_report.to_markdown()
ToMarkdown ==
    /\ pc = "returned"
    /\ result' = BuildMarkdown(report)
    /\ pc' = "rendered"
    /\ UNCHANGED <<args, workflow, manager>>

MarkdownSpec == Init /\ [][Next \/ ToMarkdown]_vars

----------------------------------------------------------------------------
(* optimize on a generated file of three tests, one of which imports the   *)
(* module m in its body, next to one existing test file whose only test    *)
(* has the name of one of the three, with embeddings of cosine 0.95 for    *)
(* one pair of the three and of less than 0.7 for the other two pairs.     *)

TestNames == <<"test_a", "test_b", "test_c", "test_d", "test_e">>

AssertionOf == <<<<"p">>, <<"q">>, <<"r">>, <<"s">>, <<"t">>>>

\* A generated file of n tests, at module level or as the methods of one
\* class; test number `importer` holds the import statement.
GeneratedFile(n, layout, importer, stmt) ==
    LET Test(i) ==
            [FunctionNode(TestNames[i], <<AssertionOf[i]>>,
                          IF i = importer
                          THEN <<[stmt |-> stmt, module |-> ModuleM]>> ELSE <<>>)
             EXCEPT !.parent = IF layout = "class" THEN 1 ELSE 0]
    IN  [valid |-> TRUE,
         defs  |-> IF layout = "class"
                   THEN <<NodeClass>> \o [i \in 1..n |-> Test(i)]
                   ELSE [i \in 1..n |-> Test(i)]]

GeneratedFiles(n) ==
    {GeneratedFile(n, layout, importer, stmt) :
        layout \in {"module", "class"}, importer \in 1..n,
        stmt \in {"Import", "ImportFrom"}}

\* An existing test file whose only test has the name of test i.
CollidingFile(i) ==
    [valid |-> TRUE, defs |-> <<FunctionNode(TestNames[i], <<<<"z">>>>, <<>>)>>]

\* Vectors of length 1, 20 and 1: the first two have cosine 19/20, the
\* third has cosine 0 and 1/20 with them.
NearDuplicateVectors ==
    <<<<1, 0, 0, 0, 0>>, <<19, 5, 3, 2, 1>>, <<0, 0, 0, 0, 1>>>>

\* The answers of the embeddings call: the three vectors in any order.
NearDuplicateResponses ==
    {[raises |-> FALSE, data |-> [i \in 1..3 |-> NearDuplicateVectors[order[i]]]] :
        order \in {f \in [1..3 -> 1..3] : \A i, j \in 1..3 : i # j => f[i] # f[j]}}

InitScenario ==
    /\ pc = "idle"
    /\ config \in ConfigChoices
    /\ generated_tests \in GeneratedFiles(3)
    /\ existing_tests \in {<<CollidingFile(i)>> : i \in 1..3}
    /\ codebase_context \in ContextChoices
    /\ test_cases = <<>>
    /\ report = EmptyReport
    /\ invoked = {}
    /\ finished = {}
    /\ failed = {}
    /\ coverage = "not_run"
    /\ args = NoFrame
    /\ result = NoFrame
    /\ ManagerUnused

\* The embeddings call comes back with the vectors of the scenario.
NearDuplicateEmbeddingReturns ==
    /\ pc = "await_embedding"
    /\ \E response \in NearDuplicateResponses :
          report' = SetSimilarPairs(report,
              SimilarityAnalyze(config.similarity_client, test_cases, response))
    /\ finished' = finished \cup {"similarity"}
    /\ pc' = "advisory"
    /\ UNCHANGED <<frame, manager, inputs, test_cases, invoked, failed, coverage>>

ScenarioNext == ProgramNext \/ NearDuplicateEmbeddingReturns \/ AdvisoryReturns

ScenarioSpec == InitScenario /\ [][ScenarioNext]_vars

----------------------------------------------------------------------------
(* The workflow on a generated file of five tests, with the embedding      *)
(* capability on or off.                                                   *)

FiveTestFiles == {GeneratedFile(5, layout, 3, "Import") : layout \in {"module", "class"}}

InitFiveTests ==
    /\ pc = "idle"
    /\ config \in ConfigChoices
    /\ generated_tests \in FiveTestFiles
    /\ existing_tests \in {<<>>, <<CollidingFile(2)>>, <<CollidingFile(5), MalformedSource>>}
    /\ codebase_context \in ContextChoices
    /\ test_cases = <<>>
    /\ report = EmptyReport
    /\ invoked = {}
    /\ finished = {}
    /\ failed = {}
    /\ coverage = "not_run"
    /\ args = NoFrame
    /\ result = NoFrame
    /\ ManagerUnused

FiveTestsSpec == InitFiveTests /\ [][Next]_vars

----------------------------------------------------------------------------
(* AISuggestions._parse_suggestions on its own. *)

\* Response texts: what lies between the first '{' and the last '}' (a
\* JSON object, something json.loads rejects, or no such span at all),
\* and which of the keywords of the fallback parse occur in the text.
ResponseTexts ==
    {[shape |-> "json", items |-> it, mentions |-> m] :
        it \in UNION {[1..k -> SuggestionItems] : k \in 0..MaxSuggestions},
        m \in SUBSET {"parametrize", "parameter", "fixture"}}
    \cup
    {[shape |-> sh, items |-> <<>>, mentions |-> m] :
        sh \in {"bad_json", "no_braces"},
        m \in SUBSET {"parametrize", "parameter", "fixture"}}

InitParse ==
    /\ pc = "parse_ready"
    /\ \E text \in ResponseTexts :
          args = [method |-> "_parse_suggestions", response_text |-> text]
    /\ result = NoFrame
    /\ ManagerUnused
    /\ NotInWorkflow

\* suggestions = self._parse_suggestions(suggestions_text)
ParseApply ==
    /\ pc = "parse_ready"
    /\ result' = [raised |-> FALSE, value |-> ParseSuggestions(args.response_text)]
    /\ pc' = "parsed"
    /\ UNCHANGED <<args, workflow, manager>>

ParseSpec == InitParse /\ [][ParseApply]_vars

----------------------------------------------------------------------------
(* RedundancyDetector.detect on its own: up to MaxDetectTests new tests,   *)
(* each at module level or a method of a class (its code is then an        *)
(* indented fragment that ast.parse rejects).                              *)

MaxDetectTests == 3

\* The TestCase of a test function that stands on line i of its file.
DetectTestCase(i, name, body, indented) ==
    [name       |-> name,
     code       |-> [indented |-> indented,
                     defs     |-> <<FunctionNode(name, body.asserts, body.imports)>>],
     line_start |-> i,
     line_end   |-> i]

\* `import m; assert x` and `assert p`.
TestBodies ==
    {[asserts |-> <<AssertX>>, imports |-> <<[stmt |-> "Import", module |-> ModuleM]>>],
     [asserts |-> <<<<"p">>>>, imports |-> <<>>]}

DetectTestCases ==
    UNION {{[i \in 1..k |-> DetectTestCase(i, name[i], body[i], indented[i])] :
               name \in [1..k -> {"test_a", "test_c"}],
               body \in [1..k -> TestBodies],
               indented \in [1..k -> BOOLEAN]} :
           k \in 0..MaxDetectTests}

InitDetect ==
    /\ pc = "detect_ready"
    /\ \E tcs \in DetectTestCases,
          files \in {<<>>, <<MalformedSource, ExistingFileAB>>},
          context \in ContextChoices,
          cfg \in {c \in ConfigChoices : c.enabled /\ c.similarity_client /\ c.ai_client} :
          args = [method |-> "detect", config |-> cfg, test_cases |-> tcs,
                  existing_tests |-> files, codebase_context |-> context]
    /\ result = NoFrame
    /\ ManagerUnused
    /\ NotInWorkflow

\* redundant, outdated = self.redundancy_detector.detect(...)
DetectApply ==
    /\ pc = "detect_ready"
    /\ result' = Detect(args.config, args.test_cases, args.existing_tests,
                        args.codebase_context)
    /\ pc' = "detected"
    /\ UNCHANGED <<args, workflow, manager>>

DetectSpec == InitDetect /\ [][DetectApply]_vars

----------------------------------------------------------------------------
(* StateManager (backend/app/config/state_manager.py): up to MaxThreads    *)
(* threads, each calling load or one of the update methods on the same     *)
(* manager.  A thread is at "load" (line 65, about to take the lock),      *)
(* "load_locked" (lines 66-80), "loaded" (load has returned to the update  *)
(* method), "save" (line 89, about to take the lock), "save_locked"        *)
(* (lines 90-101), "done" or "raised".  The time stamps are left out.      *)

MaxThreads == 2

\* What the state file can hold at the start: nothing (no file), a text
\* that cannot be loaded, or a saved state.
StateFiles ==
    {MissingFile, CorruptFile}
    \cup {FileOf(state) :
             state \in [tests_generated : {0, 2}, coverage_analyses : {0, 2},
                        optimizations_run : {0, 2}]}

UpdateMethods ==
    {"update_after_test_generation", "update_after_coverage", "update_after_optimization"}

\* The counter an update method adds to.
CounterOf(method) ==
    CASE method = "update_after_test_generation" -> "tests_generated"
      [] method = "update_after_coverage"        -> "coverage_analyses"
      [] method = "update_after_optimization"    -> "optimizations_run"

InitManager ==
    /\ pc = "state_manager"
    /\ state_file \in StateFiles
    /\ _lock = 0
    /\ _state = NoneState
    /\ \E n \in 1..MaxThreads :
          threads \in [1..n -> [method  : {"load"} \cup UpdateMethods,
                                at      : {"load"},
                                state   : {NoneState},
                                in_load : {FALSE}]]
    /\ args = [method |-> "StateManager", state_file |-> state_file]
    /\ result = NoFrame
    /\ NotInWorkflow

\* `with self._lock:` at line 65.
LoadAcquire(t) ==
    /\ threads[t].at = "load"
    /\ _lock = 0
    /\ _lock' = t
    /\ threads' = [threads EXCEPT ![t].at = "load_locked"]
    /\ UNCHANGED <<state_file, _state, pc, args, result, workflow>>

\* Lines 67-71 and 76-80: the file exists; it is read, or the read raises
\* and a new state is made; the state is returned and the lock released.
LoadExisting(t) ==
    /\ threads[t].at = "load_locked"
    /\ state_file.exists
    /\ LET loaded == IF state_file.valid THEN state_file.data ELSE DefaultState
       IN  /\ _state' = loaded
           /\ threads' = [threads EXCEPT
                 ![t].state = loaded,
                 ![t].at = IF threads[t].method = "load" THEN "done" ELSE "loaded"]
    /\ _lock' = 0
    /\ UNCHANGED <<state_file, pc, args, result, workflow>>

\* Lines 72-75: no file; a new state is made and save is called while the
\* lock is held.
LoadMissing(t) ==
    /\ threads[t].at = "load_locked"
    /\ ~state_file.exists
    /\ _state' = DefaultState
    /\ threads' = [threads EXCEPT ![t].state = DefaultState,
                                  ![t].at = "save",
                                  ![t].in_load = TRUE]
    /\ UNCHANGED <<state_file, _lock, pc, args, result, workflow>>

\* The update methods between load and save: state.usage_stats.<counter> += 1.
Increment(t) ==
    /\ threads[t].at = "loaded"
    /\ LET counter == CounterOf(threads[t].method)
       IN  threads' = [threads EXCEPT ![t].state[counter] = @ + 1,
                                      ![t].at = "save"]
    /\ UNCHANGED <<state_file, _lock, _state, pc, args, result, workflow>>

\* `with self._lock:` at line 89; threading.Lock is not reentrant.
SaveAcquire(t) ==
    /\ threads[t].at = "save"
    /\ _lock = 0
    /\ _lock' = t
    /\ threads' = [threads EXCEPT ![t].at = "save_locked"]
    /\ UNCHANGED <<state_file, _state, pc, args, result, workflow>>

\* Lines 90-99: the state is written and remembered, the lock released.
\* Back in load, leaving its `with` would release the free lock again,
\* which raises RuntimeError.
SaveWrite(t) ==
    /\ threads[t].at = "save_locked"
    /\ state_file' = FileOf(threads[t].state)
    /\ _state' = threads[t].state
    /\ _lock' = 0
    /\ threads' = [threads EXCEPT ![t].at = IF threads[t].in_load THEN "raised" ELSE "done"]
    /\ UNCHANGED <<pc, args, result, workflow>>

ManagerNext ==
    \/ \E t \in DOMAIN threads : LoadAcquire(t)
    \/ \E t \in DOMAIN threads : LoadExisting(t)
    \/ \E t \in DOMAIN threads : LoadMissing(t)
    \/ \E t \in DOMAIN threads : Increment(t)
    \/ \E t \in DOMAIN threads : SaveAcquire(t)
    \/ \E t \in DOMAIN threads : SaveWrite(t)

ManagerSpec == InitManager /\ [][ManagerNext]_vars

FairSpec == Spec /\ WF_vars(ProgramNext)

----------------------------------------------------------------------------
(* Properties. *)

Analyzers == {"similarity", "advisory", "redundancy"}

InsideOptimize ==
    pc \in {"similarity", "await_embedding", "advisory", "await_advisory",
            "redundancy", "scoring"}

\* optimize has returned its report (the later workflow steps keep it).
Returned == pc \in {"returned", "coverage", "finished", "failed"}

\* The run took the full path: it was not cut short at lines 54-56 or 65-67.
FullRun == config.enabled /\ ParseTests(generated_tests).value # <<>>

\* 10 - 0.5 s - 0.75 r - 1.0 o - 0.25 a clamped to [0, 10], in quarter points.
ClampedScore(s, r, o, a) ==
    LET deduction == 2 * s + 3 * r + 4 * o + a
    IN  IF deduction >= 40 THEN 0 ELSE 40 - deduction

ScoreOfFindings(r) ==
    ClampedScore(Len(r.similar_pairs), Len(r.redundant_tests),
                 Len(r.outdated_tests), Len(r.optimizations))

\* C1: optimize never raises and always returns a report: on a full run
\* every analyzer has run, an analyzer that raised contributes empty
\* lists, the lists of the analyzers that did not raise hold what they
\* found, and the quality score is the score of exactly those findings.
FailSoftReport ==
    /\ pc # "optimize_raised"
    /\ (Returned /\ FullRun) =>
         /\ finished = Analyzers
         /\ "similarity" \in failed => report.similar_pairs = <<>>
         /\ "advisory" \in failed => report.optimizations = <<>>
         /\ "redundancy" \in failed =>
               report.redundant_tests = <<>> /\ report.outdated_tests = <<>>
         /\ "similarity" \notin failed =>
               \E response \in EmbeddingResponses(Len(test_cases)) :
                  report.similar_pairs =
                     SimilarityAnalyze(config.similarity_client, test_cases, response)
         /\ "advisory" \notin failed =>
               \E response \in AdvisoryResponses :
                  report.optimizations = Suggest(config.ai_client, test_cases, response)
         /\ "redundancy" \notin failed =>
               LET found == Detect(config, test_cases, existing_tests, codebase_context)
               IN  /\ report.redundant_tests = found.redundant
                   /\ report.outdated_tests = found.outdated
         /\ report.quality_score = ScoreOfFindings(report)

\* C1 witness: the advisory analyzer raised, and the returned report still
\* holds similarity, redundancy and staleness findings and is scored.
FailSoftReportWitness ==
    /\ pc = "returned"
    /\ failed = {"advisory"}
    /\ report.similar_pairs # <<>>
    /\ report.redundant_tests # <<>>
    /\ report.outdated_tests # <<>>
    /\ report.quality_score < 40

TestDefinitionCount(src) ==
    Cardinality({i \in DOMAIN src.defs :
        src.defs[i].kind = "FunctionDef" /\ StartsWithTestPrefix(src.defs[i].name)})

\* C5: for a valid source with k test function definitions at any nesting
\* the extractor returns exactly k TestCase records in source order, that
\* is with strictly ascending start lines.
ExtractorSourceOrder ==
    (pc = "extracted" /\ generated_tests.valid) =>
        /\ Len(test_cases) = TestDefinitionCount(generated_tests)
        /\ \A i, j \in DOMAIN test_cases :
              i < j => test_cases[i].line_start < test_cases[j].line_start

\* C6: for a malformed source the extractor returns an empty sequence and
\* does not raise.
MalformedYieldsEmpty ==
    /\ pc # "extract_raised"
    /\ (pc = "extracted" /\ ~generated_tests.valid) => test_cases = <<>>

\* C6 witness: the extractor has returned for a malformed source.
MalformedYieldsEmptyWitness ==
    pc = "extracted" /\ ~generated_tests.valid

\* C7: when the optimizer is disabled or extraction yields no test case,
\* optimize returns a report without findings and with score 10, and no
\* analyzer and no external call is started in the run.
EarlyDone ==
    (~config.enabled \/ ParseTests(generated_tests).value = <<>>) =>
        /\ invoked = {}
        /\ ~InsideOptimize
        /\ Returned => report = EmptyReport

\* C7 witness: optimize returned early for a valid source that holds
\* definitions but no test case.
EarlyDoneWitness ==
    /\ pc = "returned"
    /\ config.enabled
    /\ generated_tests.valid
    /\ generated_tests.defs # <<>>
    /\ test_cases = <<>>
    /\ invoked = {}

\* C8: in every returned report each finding names a TestCase of the run's
\* extractor output, and the two names of a similarity pair are the names
\* of two distinct TestCases (names are unique).
NoDanglingReferences ==
    Returned =>
        LET names == {test_cases[i].name : i \in DOMAIN test_cases}
        IN  /\ \A k \in DOMAIN report.similar_pairs :
                  /\ report.similar_pairs[k].test1 \in names
                  /\ report.similar_pairs[k].test2 \in names
                  /\ report.similar_pairs[k].test1 # report.similar_pairs[k].test2
            /\ \A k \in DOMAIN report.redundant_tests :
                  report.redundant_tests[k].test \in names
            /\ \A k \in DOMAIN report.outdated_tests :
                  report.outdated_tests[k].test \in names

\* C9: the quality score of a report with s similarity pairs, r redundant,
\* o stale and a advisory findings is 10 - 0.5 s - 0.75 r - 1.0 o - 0.25 a
\* clamped to [0, 10].
ScoreFormula ==
    pc \in {"scored", "rescored"} =>
        /\ report.quality_score = ScoreOfFindings(report)
        /\ report.quality_score >= 0
        /\ report.quality_score <= 40

\* C9 witness: a scored report whose deductions exceed 10 and whose score is 0.
ScoreFormulaWitness ==
    /\ pc = "scored"
    /\ 2 * Len(report.similar_pairs) + 3 * Len(report.redundant_tests)
         + 4 * Len(report.outdated_tests) + Len(report.optimizations) > 40
    /\ report.quality_score = 0

\* C10: adding a finding of any category to a scored report never
\* increases its score.
ScoreMonotone ==
    [][(pc \in {"scored", "rescored"} /\ pc' = "rescored") =>
          report'.quality_score <= report.quality_score]_vars

\* C10 witness: a finding was added and the score went below 10 but stayed
\* above 0.
ScoreMonotoneWitness ==
    /\ pc = "rescored"
    /\ report.quality_score > 0
    /\ report.quality_score < 40

----------------------------------------------------------------------------
(* SimilarityAnalyzer: C11 - C13. *)

\* The cosine of v and w is at least 0.7 (norms not 0, equal lengths).
AtLeastThreshold(v, w) ==
    /\ Dot(v, v) * Dot(w, w) > 0
    /\ Dot(v, w) >= 0
    /\ 100 * Dot(v, w) * Dot(v, w) >= 49 * Dot(v, v) * Dot(w, w)

\* analyze got a client, n >= 2 tests and a vector for each of them.
AnalyzedInFull ==
    /\ pc = "analyzed"
    /\ args.client
    /\ Len(args.test_cases) >= 2
    /\ ~args.response.raises
    /\ Len(args.response.data) = Len(args.test_cases)

SuggestionByRecordedSimilarity ==
    pc = "analyzed" =>
        \A k \in DOMAIN result :
            LET s == result[k].similarity
            IN  /\ s >= 0 /\ s <= 1000
                /\ result[k].suggestion =
                      IF s >= 900
                      THEN "Tests are nearly identical - consider removing duplicate"
                      ELSE IF s >= 800
                      THEN "Combine using parametrization with @pytest.mark.parametrize"
                      ELSE "Consider consolidating or making tests more distinct"

\* The cosine of v and w is at least num / 10 (norms not 0).
CosineAtLeastTenths(v, w, num) ==
    /\ Dot(v, w) >= 0
    /\ 100 * Dot(v, w) * Dot(v, w) >= num * num * Dot(v, v) * Dot(w, w)

\* The vectors of the two tests named by a pair.
VectorOf(name) ==
    args.response.data[CHOOSE i \in DOMAIN args.test_cases : args.test_cases[i].name = name]

\* C12 amended: on every emitted pair, with c the cosine similarity
\* computed for the two tests, the suggestion is the remove-duplicate text
\* for c >= 0.9, the parametrize text for 0.8 <= c < 0.9 and the
\* consolidate text otherwise; the recorded score s is c rounded to three
\* decimals, so it lies in [0, 1] and on the same side of 0.9 and of 0.8
\* as c, or on the value itself.
SuggestionByComputedSimilarity ==
    pc = "analyzed" =>
        \A k \in DOMAIN result :
            LET s == result[k].similarity
                v == VectorOf(result[k].test1)
                w == VectorOf(result[k].test2)
            IN  /\ s >= 0 /\ s <= 1000
                /\ result[k].suggestion =
                      IF CosineAtLeastTenths(v, w, 9)
                      THEN "Tests are nearly identical - consider removing duplicate"
                      ELSE IF CosineAtLeastTenths(v, w, 8)
                      THEN "Combine using parametrization with @pytest.mark.parametrize"
                      ELSE "Consider consolidating or making tests more distinct"
                /\ IF CosineAtLeastTenths(v, w, 9) THEN s >= 900 ELSE s <= 900
                /\ IF CosineAtLeastTenths(v, w, 8) THEN s >= 800 ELSE s <= 800

\* C12 witness: a pair with a cosine of 0.8998..., recorded as 0.9, that
\* carries the parametrize text, beside a pair with a cosine of exactly 0.8.
SuggestionByComputedSimilarityWitness ==
    /\ pc = "analyzed"
    /\ \E k \in DOMAIN result :
          /\ result[k].similarity = 900
          /\ result[k].suggestion =
                "Combine using parametrization with @pytest.mark.parametrize"
    /\ \E k \in DOMAIN result :
          /\ result[k].similarity = 800
          /\ result[k].suggestion =
                "Combine using parametrization with @pytest.mark.parametrize"

\* One of the degenerate cases of analyze.
Degenerate ==
    \/ Len(args.test_cases) < 2
    \/ ~args.client
    \/ args.response.raises
    \/ Len(args.response.data) < Len(args.test_cases)

\* C13: with fewer than two tests, without a client, with a failing
\* embedding service or with fewer vectors than tests, the detector returns
\* an empty result and does not raise.
DegenerateYieldsEmpty ==
    /\ pc # "analyze_raised"
    /\ (pc = "analyzed" /\ Degenerate) => result = <<>>

\* C13 witness: analyze returned for three tests of which only the first
\* two, with equal vectors, got a vector.
DegenerateYieldsEmptyWitness ==
    /\ pc = "analyzed"
    /\ args.client
    /\ Len(args.test_cases) = 3
    /\ ~args.response.raises
    /\ args.response.data = <<<<1, 0, 0, 0>>, <<1, 0, 0, 0>>>>
    /\ result = <<>>

----------------------------------------------------------------------------
(* RedundancyDetector: C14 - C16. *)

\* The names of the test functions in the existing files that parse.
ExistingTestNames(files) ==
    UNION {{files[f].defs[i].name :
               i \in {j \in DOMAIN files[f].defs :
                          /\ files[f].defs[j].kind = "FunctionDef"
                          /\ StartsWithTestPrefix(files[f].defs[j].name)}} :
           f \in {g \in DOMAIN files : files[g].valid}}

\* C14: a new test case whose name is the name of a test in some existing
\* file gets exactly one redundancy finding, with the same-name reason,
\* however many files hold the name and whatever its assertions overlap.
SameNameOneFinding ==
    pc = "find_redundant_done" =>
        \A name \in ExistingTestNames(args.existing_tests) :
            LET cases    == {k \in DOMAIN args.test_cases : args.test_cases[k].name = name}
                findings == {k \in DOMAIN result : result[k].test = name}
            IN  /\ Cardinality(findings) = Cardinality(cases)
                /\ \A k \in findings :
                      result[k].reason = "Test with same name already exists"

\* C14 witness: test_a is new, two existing files hold a test_a, one of
\* them also a test_b whose assertions overlap with those of the new test,
\* and there is one finding.
SameNameOneFindingWitness ==
    /\ pc = "find_redundant_done"
    /\ args.existing_tests = <<ExistingFile, ExistingFileAB>>
    /\ Len(args.test_cases) = 1
    /\ args.test_cases[1].name = "test_a"
    /\ ~args.test_cases[1].code.indented
    /\ Len(result) = 1

\* Two assertion texts are equal or one is a substring of the other.
Related(a, b) == a = b \/ IsSubstr(a, b) \/ IsSubstr(b, a)

\* More than half of the assertions of `smaller` have a related assertion
\* in `other`.
MostOfSmallerMatch(smaller, other) ==
    2 * Cardinality({i \in DOMAIN smaller :
                        \E j \in DOMAIN other : Related(smaller[i], other[j])})
      > Len(smaller)

\* C15: two assertion sets overlap iff more than half of the assertions of
\* the smaller set have an equal or substring-related assertion in the
\* other set (with sets of equal size, of either one); an empty set never
\* overlaps.
OverlapOverSmallerSet ==
    pc = "overlap_done" =>
        LET a1 == args.assertions1
            a2 == args.assertions2
        IN  IF a1 = <<>> \/ a2 = <<>> THEN result = FALSE
            ELSE \/ Len(a1) <= Len(a2) /\ result = MostOfSmallerMatch(a1, a2)
                 \/ Len(a2) <= Len(a1) /\ result = MostOfSmallerMatch(a2, a1)

\* The import statements inside test case tc that name a module.
ImportsOf(tc) ==
    {tc.code.defs[i].imports[k].module :
        <<i, k>> \in {ik \in (DOMAIN tc.code.defs) \X (1..MaxImports) :
                         ik[2] \in DOMAIN tc.code.defs[ik[1]].imports}} \ {<<>>}

\* The module is in the allowlist by its top-level package, or is one of
\* the dotted module paths of the code context.
KnownModule(module, context) ==
    \/ FirstPart(module) \in StdlibModules
    \/ module \in GetExistingModules(context)

\* C16: an import statement inside a new test case gets a stale-reference
\* finding, of severity "high", if and only if its module is neither in
\* the allowlist of standard modules nor one of the module paths of the
\* code context; being a substring of a known path, or containing one,
\* does not make a module known.
StaleIffUnknown ==
    pc = "find_outdated_done" =>
        /\ \A k \in DOMAIN result : result[k].severity = "high"
        /\ {<<result[k].test, result[k].issue[2]>> : k \in DOMAIN result}
             = UNION {{<<args.test_cases[t].name, m>> :
                          m \in {x \in ImportsOf(args.test_cases[t]) :
                                    ~KnownModule(x, args.codebase_context)}} :
                      t \in DOMAIN args.test_cases}

----------------------------------------------------------------------------
(* GapAnalyzer: C17 - C20. *)

\* C17: the lines 10, 11, 12, 15 are grouped into the one range [10, 15]
\* with tolerance 3 and into the two ranges [10, 12] and [15, 15] with
\* tolerance 0; and for every tolerance >= 0 two directly consecutive
\* lines are placed in the same range.
GroupingUnderTolerance ==
    pc = "grouped" =>
        /\ (args.lines = <<10, 11, 12, 15>> /\ args.max_gap = 3) =>
              result = <<<<10, 15>>>>
        /\ (args.lines = <<10, 11, 12, 15>> /\ args.max_gap = 0) =>
              result = <<<<10, 12>>, <<15, 15>>>>
        /\ \A i \in 1..(Len(args.lines) - 1) :
              args.lines[i + 1] = args.lines[i] + 1 =>
                 \E k \in DOMAIN result :
                    result[k][1] <= args.lines[i] /\ args.lines[i + 1] <= result[k][2]

\* The gaps found in the files of the snapshot, before sorting and cutting.
FoundGaps == {AllGaps(args.files)[k] : k \in DOMAIN AllGaps(args.files)}

\* C18: identify_gaps returns at most max_gaps gaps, ordered by complexity
\* (line_end - line_start + 1) non-increasing, and they are the most
\* complex ones: no gap that was found and not returned is more complex
\* than a returned one.
TopGapsByComplexity ==
    pc = "gaps_identified" =>
        LET returned == {result[k] : k \in DOMAIN result}
        IN  /\ Len(result) = Min(args.max_gaps, Cardinality(FoundGaps))
            /\ Cardinality(returned) = Len(result)
            /\ returned \subseteq FoundGaps
            /\ \A k \in DOMAIN result :
                  result[k].complexity = result[k].line_end - result[k].line_start + 1
            /\ \A i, j \in DOMAIN result :
                  i < j => result[i].complexity >= result[j].complexity
            /\ \A g \in FoundGaps \ returned :
                  \A r \in returned : g.complexity <= r.complexity

\* C18 witness: the first file has two gaps of one line, the second a gap
\* of six lines; cut to two gaps, the six-line gap comes first and one of
\* the gaps of the first file is left out.
TopGapsByComplexityWitness ==
    /\ pc = "gaps_identified"
    /\ args.max_gaps = 2
    /\ Len(args.files) = 2
    /\ args.files[1].data.missing_lines = <<7, 1>>
    /\ Cardinality(FoundGaps) = 3
    /\ Len(result) = 2
    /\ result[1].file_path = <<"file", 2>>
    /\ result[1].complexity = 6
    /\ result[2].complexity = 1

\* The entry's file is in the source tree / is there and parses.
OnDisk(entry) == entry.disk.state # "missing"
Parses(entry) == entry.disk.state = "parsed"

\* The gaps of the result that lie in the file of entry k.
GapsOfEntry(k) ==
    {g \in {result[i] : i \in DOMAIN result} : g.file_path = args.files[k].path}

Occurrences(x, seq) == Cardinality({i \in DOMAIN seq : seq[i] = x})

NonDecreasing(seq) == \A i, j \in DOMAIN seq : i < j => seq[i] <= seq[j]

\* C20: for an entry with a missing-lines list the uncovered lines are the
\* listed lines, for an entry with a statement count map they are the keys
\* whose count is 0, as numbers, in both cases in ascending order; an entry
\* of neither recognised shape has no uncovered lines.
UncoveredLinesOfEitherShape ==
    pc = "uncovered_done" =>
        LET file_data == args.file_data
        IN  /\ NonDecreasing(result)
            /\ "missing_lines" \in file_data.has =>
                  /\ Len(result) = Len(file_data.missing_lines)
                  /\ \A x \in 1..10 :
                        Occurrences(x, result) = Occurrences(x, file_data.missing_lines)
            /\ ("s" \in file_data.has /\ "missing_lines" \notin file_data.has) =>
                  /\ Len(result) =
                        Cardinality({i \in DOMAIN file_data.s : file_data.s[i].count = 0})
                  /\ \A i \in DOMAIN file_data.s :
                        (file_data.s[i].count = 0) <=>
                           (\E k \in DOMAIN result :
                               result[k] = CASE file_data.s[i].key = <<"2">>      -> 2
                                             [] file_data.s[i].key = <<"9">>      -> 9
                                             [] file_data.s[i].key = <<"1", "0">> -> 10)
            /\ file_data.has \cap {"missing_lines", "s", "lines"} = {} => result = <<>>

\* C20 witness: a statement count map that lists statement 10 before
\* statement 9, both never executed, and statement 2, executed.
UncoveredLinesOfEitherShapeWitness ==
    /\ pc = "uncovered_done"
    /\ args.file_data.has = {"s"}
    /\ args.file_data.s = <<[key |-> <<"1", "0">>, count |-> 0],
                             [key |-> <<"2">>, count |-> 1],
                             [key |-> <<"9">>, count |-> 0]>>
    /\ result = <<9, 10>>

\* The coverage of a file in a snapshot, 0 when the snapshot lacks it.
CoverageIn(data, file_path) ==
    IF file_path \in PathsOf(data.files)
    THEN GetFileCoverage(FileDataOf(data.files, file_path))
    ELSE 0

\* C21: in every successful coverage report coverage_gain is the total
\* coverage after minus the total coverage before, and the module list
\* has exactly one entry for each file of the union of the two snapshots,
\* whose change is after minus before, a file missing from one snapshot
\* counting as 0% there.
BeforeAfterComparison ==
    (pc = "coverage_analyzed" /\ result.success) =>
        LET union == PathsOf(args.before_data.files) \cup PathsOf(args.after_data.files)
        IN  /\ result.coverage_gain =
                  args.after_data.total_coverage - args.before_data.total_coverage
            /\ Len(result.modules) = Cardinality(union)
            /\ \A p \in union :
                  \E k \in DOMAIN result.modules :
                     /\ result.modules[k].file_path = p
                     /\ result.modules[k].before = CoverageIn(args.before_data, p)
                     /\ result.modules[k].after = CoverageIn(args.after_data, p)
                     /\ result.modules[k].change =
                           CoverageIn(args.after_data, p) - CoverageIn(args.before_data, p)

\* C21 witness: a successful report over snapshots that differ in their
\* files, one file only in the first and one only in the second.
BeforeAfterComparisonWitness ==
    /\ pc = "coverage_analyzed"
    /\ result.success
    /\ PathsOf(args.before_data.files) = {<<"file", 1>>}
    /\ PathsOf(args.after_data.files) = {<<"file", 2>>}
    /\ \E k \in DOMAIN result.modules : result.modules[k].change < 0
    /\ \E k \in DOMAIN result.modules : result.modules[k].change > 0

NoFindings(r) ==
    /\ r.similar_pairs = <<>>
    /\ r.optimizations = <<>>
    /\ r.redundant_tests = <<>>
    /\ r.outdated_tests = <<>>

\* C22: the report is rendered as the fixed clean report (score 10/10)
\* if and only if it holds no similarity pair, no advisory suggestion, no
\* redundant finding and no stale finding; and every report optimize
\* returns without findings has quality score exactly 10.
CleanReportIffNoFindings ==
    /\ pc = "rendered" =>
          /\ (result = BuildCleanReport) <=> NoFindings(report)
          /\ (\E k \in DOMAIN result : result[k].section = "Test Quality Check Passed")
                <=> NoFindings(report)
    /\ ((Returned \/ pc = "rendered") /\ NoFindings(report)) => report.quality_score = 40

\* C22 witness: a full run of optimize that found nothing, rendered as
\* the clean report.
CleanReportWitness ==
    /\ pc = "rendered"
    /\ FullRun
    /\ failed = {}
    /\ NoFindings(report)
    /\ result = BuildCleanReport

\* The run of the scenario: every check switched on, no analyzer raised,
\* no advisory suggestion came back.
ScenarioRun ==
    /\ pc = "returned"
    /\ config.enabled /\ config.similarity_client
    /\ config.check_redundant /\ config.check_outdated
    /\ failed = {}
    /\ Len(test_cases) = 3
    /\ report.optimizations = <<>>

\* C23: with three generated tests, one existing test of the same name as
\* one of them, similarity 0.95 for exactly one pair, exactly one new test
\* importing a module that does not exist, and no advisory suggestion,
\* the report holds exactly one redundant finding, exactly one similarity
\* pair with the near-duplicate suggestion, exactly one stale finding of
\* severity high, and the quality score 7.75.
EndToEndScenario ==
    ScenarioRun =>
        /\ Len(report.redundant_tests) = 1
        /\ Len(report.similar_pairs) = 1
        /\ report.similar_pairs[1].suggestion =
              "Tests are nearly identical - consider removing duplicate"
        /\ report.similar_pairs[1].similarity = 950
        /\ Len(report.outdated_tests) = 1
        /\ report.outdated_tests[1].severity = "high"
        /\ report.quality_score = 31

\* C24: with five test cases and the embedding capability off the report
\* has no similarity pair, and its redundant and stale findings are the
\* ones the same inputs give with the capability on: in either setting
\* they are what detect finds for the inputs other than that switch; the
\* gap analysis of the coverage step can end in each of its outcomes
\* whatever the switch says, and leaves the report as it is.
EmbeddingsOffLeavesOthers ==
    /\ (Returned /\ Len(test_cases) = 5 /\ ~config.similarity_client) =>
          report.similar_pairs = <<>>
    /\ (Returned /\ Len(test_cases) = 5 /\ "redundancy" \notin failed) =>
          \A embeddings \in BOOLEAN :
             LET found == Detect([config EXCEPT !.similarity_client = embeddings],
                                 ParseTests(generated_tests).value,
                                 existing_tests, codebase_context)
             IN  /\ report.redundant_tests = found.redundant
                 /\ report.outdated_tests = found.outdated
    /\ pc = "coverage" =>
          \A outcome \in {"disabled", "completed", "failed"} :
             ENABLED (CoverageStep /\ coverage' = outcome /\ report' = report)

\* C24 witness: a report on five tests with embeddings off, without a
\* similarity pair and with a redundant and a stale finding.
EmbeddingsOffWitness ==
    /\ pc = "returned"
    /\ Len(test_cases) = 5
    /\ ~config.similarity_client
    /\ failed = {}
    /\ report.similar_pairs = <<>>
    /\ report.redundant_tests # <<>>
    /\ report.outdated_tests # <<>>

\* C25: when the response text holds no parsable JSON object the parser
\* returns what the keyword-based fallback parse of that text returns,
\* and it never raises.
FallbackOnUnparsable ==
    pc = "parsed" =>
        /\ ~result.raised
        /\ args.response_text.shape # "json" =>
              result.value = FallbackParse(args.response_text)

\* The list without its k-th member.
Without(seq, k) == SubSeq(seq, 1, k - 1) \o SubSeq(seq, k + 1, Len(seq))

\* detect on the test cases tcs, the other arguments as in the call.
DetectOn(tcs) ==
    Detect(args.config, tcs, args.existing_tests, args.codebase_context)

\* C26: when the code of one new test case does not parse, the redundancy
\* and the staleness check skip that test case only: the findings already
\* collected for the test cases before it are kept, the findings for all
\* other test cases are the ones the input without the unparsable test
\* case gives, and the unparsable test case itself adds no stale finding
\* and at most the finding of its name check, which needs no parsing.
ParseFailureIsolated ==
    pc = "detected" =>
        \A k \in DOMAIN args.test_cases :
            args.test_cases[k].code.indented =>
                LET before == DetectOn(SubSeq(args.test_cases, 1, k - 1))
                    others == DetectOn(Without(args.test_cases, k))
                    kept   == Len(before.redundant)
                IN  /\ result.outdated = others.outdated
                    /\ SubSeq(result.outdated, 1, Len(before.outdated)) = before.outdated
                    /\ SubSeq(result.redundant, 1, kept) = before.redundant
                    /\ \E own \in {<<>>, <<SameNameFinding(args.test_cases[k].name)>>} :
                          /\ result.redundant =
                                before.redundant \o own
                                \o SubSeq(others.redundant, kept + 1, Len(others.redundant))
                          /\ Len(others.redundant) >= kept

\* C26 witness: an unparsable test case between two parsable ones, with a
\* redundant and a stale finding before it and after it.
ParseFailureIsolatedWitness ==
    /\ pc = "detected"
    /\ Len(args.test_cases) = 3
    /\ ~args.test_cases[1].code.indented
    /\ args.test_cases[2].code.indented
    /\ ~args.test_cases[3].code.indented
    /\ DetectOn(<<args.test_cases[1]>>).redundant # <<>>
    /\ DetectOn(<<args.test_cases[1]>>).outdated # <<>>
    /\ DetectOn(<<args.test_cases[3]>>).redundant # <<>>
    /\ DetectOn(<<args.test_cases[3]>>).outdated # <<>>
    /\ Len(result.redundant) >= 2
    /\ Len(result.outdated) = 2

\* Thread t waits at line 89 for the lock it took itself at line 65.
WaitsForOwnLock(t) == threads[t].at = "save" /\ _lock = t

\* C27: load always terminates and returns a ToolState: no thread waits
\* for ever for the manager's lock that the thread holds itself, and a
\* load that found no state file leaves the file holding the new default
\* state and returns that state.
LoadReturnsState ==
    \A t \in DOMAIN threads :
        /\ ~WaitsForOwnLock(t)
        /\ (threads[t].method = "load" /\ threads[t].at = "done") =>
              threads[t].state # NoneState
        /\ (threads[t].method = "load" /\ threads[t].at = "done"
            /\ ~args.state_file.exists /\ Len(threads) = 1) =>
              state_file = FileOf(DefaultState) /\ threads[t].state = DefaultState

\* The number of calls of an update method among the threads.
CallsOf(method) == Cardinality({t \in DOMAIN threads : threads[t].method = method})

\* C28: on an existing state file, once all the concurrent calls of the
\* update methods have completed, each persisted usage counter has grown
\* by exactly the number of calls of its method, whatever the interleaving.
NoLostUpdate ==
    (/\ args.state_file.exists /\ args.state_file.valid
     /\ \A t \in DOMAIN threads :
           threads[t].method \in UpdateMethods /\ threads[t].at = "done") =>
        /\ state_file.exists /\ state_file.valid
        /\ \A method \in UpdateMethods :
              state_file.data[CounterOf(method)] =
                 args.state_file.data[CounterOf(method)] + CallsOf(method)

\* C29: the redundancy check yields at most one finding for each new test
\* case, whatever its body holds and however many existing tests it
\* overlaps with: no name occurs in more findings than there are test
\* cases of that name.
OneFindingPerTestCase ==
    pc = "find_redundant_done" =>
        \A k \in DOMAIN args.test_cases :
            LET name == args.test_cases[k].name
            IN  Cardinality({i \in DOMAIN result : result[i].test = name})
                   <= Cardinality({j \in DOMAIN args.test_cases :
                                      args.test_cases[j].name = name})

\* C30: for every ascending list of uncovered lines and every tolerance
\* >= 0 the ranges _group_line_ranges returns are ascending and pairwise
\* disjoint, each has start <= end with both ends uncovered lines, every
\* input line lies in exactly one range, neighbouring ranges are more than
\* the tolerance apart, and an empty input yields no ranges.
LinesOf(lines) == {lines[k] : k \in DOMAIN lines}

RangePartition ==
    pc = "grouped" =>
        /\ args.lines = <<>> => result = <<>>
        /\ \A i \in DOMAIN result :
              /\ result[i][1] <= result[i][2]
              /\ result[i][1] \in LinesOf(args.lines)
              /\ result[i][2] \in LinesOf(args.lines)
        /\ \A i \in 1..(Len(result) - 1) :
              /\ result[i][2] < result[i + 1][1]
              /\ result[i + 1][1] - result[i][2] > args.max_gap
        /\ \A line \in LinesOf(args.lines) :
              Cardinality({i \in DOMAIN result :
                              result[i][1] <= line /\ line <= result[i][2]}) = 1

\* A list with a repeated line and lines left out falls into two ranges,
\* one of them spanning a line that is not uncovered.
RangePartitionWitness ==
    /\ pc = "grouped"
    /\ args.max_gap = 2
    /\ args.lines = <<10, 10, 12, 15>>
    /\ result = <<<<10, 12>>, <<15, 15>>>>

====
